---- MODULE Spec2Model ----
(***************************************************************************)
(* SpicyDiff: the review pipeline (main.run), diff ingestion               *)
(* (diff_parser.fetch_pr_diff), the LLM call and its validation            *)
(* (llm_client.call_llm, models.ReviewResult) and posting                  *)
(* (github_client).  Texts are modelled by their length, a patch by its    *)
(* length and the added lines the unified-diff parser finds in it.         *)
(***************************************************************************)
EXTENDS Integers, Sequences, FiniteSets, TLC

VARIABLES
    cfg,            \* Config: dry_run, max_diff_chars, exclude_patterns,
                    \* temperature, max_tokens
    hostFiles,      \* pr.get_files(), in the host's order
    pc,             \* position of the running function
    outcome,        \* how the process ended ("running" until then)
    fileIdx,        \* fetch_pr_diff: index of the loop over pr.get_files()
    files,          \* fetch_pr_diff: files
    total_chars,    \* fetch_pr_diff: total_chars
    truncated,      \* fetch_pr_diff: truncated
    skipped_files,  \* fetch_pr_diff: skipped_files
    pr_diff,        \* the PRDiff returned by fetch_pr_diff (<<>> before)
    strategy,       \* the review strategies run() has entered
    i,              \* _multi_file_review: index of the loop over pr_diff.files
    llmCalls,       \* the call_llm invocations, in order: [kind, path, ...]
    llmDone,        \* how many of them have returned or exited
    llmError,       \* why call_llm exited ("" while none did)
    llmResp,        \* the endpoint's response to the last call (<<>> before)
    llmResults,     \* the results call_llm returned, in order
    stripped,       \* what _strip_code_fences returned (<<>> before)
    all_reviews,    \* _multi_file_review: all_reviews
    file_review_summaries,  \* _multi_file_review: file_review_summaries
    result,         \* the ReviewResult / FullReviewResult (<<>> before)
    printed,        \* _print_dry_run: the results written to the log
    prCommits,      \* host: the number of commits of the pull request
    prComments,     \* host: the issue comments of the pull request
    prReviews,      \* host: the reviews (batches of inline comments)
    hostCalls,      \* host write calls attempted: the numbers of create_review
                    \* and edit calls, the status of the last edit, whether
                    \* create_issue_comment was called
    retry,          \* _retry_github_call: caller, attempt, body, sleeps, last
    changed_lines,  \* post_inline_comments: path -> added lines, in set order
    comments_payload,  \* post_inline_comments: comments_payload
    payloadIdx,     \* post_inline_comments: index of the fallback loop
    posted,         \* post_inline_comments: posted
    reviewStatus,   \* the status create_review answered with (0 before)
    full_source,    \* extract_surrounding_context: the lines of full_source
    context_changed_lines,  \* extract_surrounding_context: changed_lines
    max_chars,      \* extract_surrounding_context: max_chars
    context_ranges, \* extract_surrounding_context: context_ranges
    merged,         \* extract_surrounding_context: merged
    rangeIdx,       \* extract_surrounding_context: index of `for start, end`
    lineIdx,        \* extract_surrounding_context: i
    parts,          \* extract_surrounding_context: parts
    context_total_chars,  \* extract_surrounding_context: total_chars
    context_code,   \* the value returned (<<>> before it returns)
    env,            \* the environment variables Config.from_env reads
    repo_data,      \* the mapping read from the repository's settings file
    resolved        \* what resolve_provider returned (<<>> before)

ingestVars == <<fileIdx, files, total_chars, truncated, skipped_files>>
reviewVars == <<strategy, i, llmCalls, llmDone, llmError, llmResp, llmResults,
                all_reviews,
                file_review_summaries, result, printed>>
hostVars == <<prCommits, prComments, prReviews, hostCalls, retry>>
inlineVars == <<changed_lines, comments_payload, payloadIdx, posted,
                reviewStatus>>

contextVars == <<full_source, context_changed_lines, max_chars,
                 context_ranges, merged,
                 rangeIdx, lineIdx, parts, context_total_chars, context_code>>

configVars == <<env, repo_data, resolved>>

vars == <<stripped, configVars, contextVars, cfg, hostFiles, pc, outcome, pr_diff, ingestVars, reviewVars,
          hostVars, inlineVars>>

----------------------------------------------------------------------------
(* Bounds *)

MaxIngestFiles == 3
MaxPatchLen == 2
MaxBudget == 3

----------------------------------------------------------------------------
(* Helpers *)

RECURSIVE SumSeq(_)
SumSeq(s) == IF s = <<>> THEN 0 ELSE Head(s) + SumSeq(Tail(s))

Range(s) == {s[k] : k \in 1..Len(s)}

Max(a, b) == IF a >= b THEN a ELSE b

SeqsUpTo(S, n) == UNION {[1..k -> S] : k \in 0..n}

----------------------------------------------------------------------------
(* diff_parser.py *)

\* Paths of the model that one of _DEFAULT_IGNORE_PATTERNS matches
\* (lock files, binary/media extensions, .DS_Store).
DefaultIgnoredPaths ==
    {"yarn.lock", "assets/logo.png", ".DS_Store", "go.sum", "Cargo.lock",
     "poetry.lock", "icon.svg"}

\* fnmatch.fnmatch(path, pat) on the paths and patterns of the model.
fnmatch(path, pat) ==
    \/ pat = "*.md" /\ path \in {"README.md", "docs/api.md"}
    \/ pat = "docs/*" /\ path \in {"docs/api.md"}

\* A buggy check: the caller's exclude globs are not consulted.
should_ignore_builtin_only(file_path, extra_patterns) ==
    file_path \in DefaultIgnoredPaths

should_ignore(file_path, extra_patterns) ==
    \/ file_path \in DefaultIgnoredPaths
    \/ \E k \in 1..Len(extra_patterns) : fnmatch(file_path, extra_patterns[k])

\* FileDiff(path, patch, added_lines); the patch is kept by its length.
FileDiff(path, patch, added_lines) ==
    [path |-> path, patch |-> patch, added_lines |-> added_lines]

\* PRDiff.total_chars
PRDiff_total_chars(d) == SumSeq([k \in 1..Len(d.files) |-> d.files[k].patch])

\* PRDiff.changed_line_map
PRDiff_changed_line_map(d) ==
    [p \in {d.files[k].path : k \in 1..Len(d.files)} |->
        d.files[CHOOSE k \in 1..Len(d.files) : d.files[k].path = p /\
            \A j \in 1..Len(d.files) : d.files[j].path = p => j <= k].added_lines]

\* A buggy budget test: the budget is tested before the file is added.
BudgetExceeded_late(total, patch_len, max_diff_chars) ==
    total > max_diff_chars

\* if total_chars + patch_len > max_diff_chars
BudgetExceeded(total, patch_len, max_diff_chars) ==
    total + patch_len > max_diff_chars

\* A buggy parse: lines are recorded although the patch did not parse.
ParsedAddedLines_partial(pr_file) == pr_file.added

\* The added lines unidiff finds; a parse failure leaves the empty dict.
ParsedAddedLines(pr_file) ==
    IF pr_file.parses THEN pr_file.added ELSE {}

\* One iteration of `for pr_file in pr.get_files()`.
fetch_pr_diff_file ==
    /\ pc = "fetch_pr_diff"
    /\ fileIdx <= Len(hostFiles)
    /\ LET pr_file == hostFiles[fileIdx]
           path == pr_file.filename
           patch_len == pr_file.patch
       IN  IF should_ignore(path, cfg.exclude_patterns) \/ patch_len = 0
           THEN UNCHANGED <<files, total_chars, truncated, skipped_files>>
           ELSE IF BudgetExceeded(total_chars, patch_len, cfg.max_diff_chars)
           THEN /\ skipped_files' = Append(skipped_files, path)
                /\ truncated' = TRUE
                /\ UNCHANGED <<files, total_chars>>
           ELSE /\ files' = Append(files,
                        FileDiff(path, patch_len, ParsedAddedLines(pr_file)))
                /\ total_chars' = total_chars + patch_len
                /\ UNCHANGED <<truncated, skipped_files>>
    /\ fileIdx' = fileIdx + 1
    /\ UNCHANGED <<stripped, configVars, contextVars, cfg, hostFiles, pc, outcome, pr_diff, reviewVars, hostVars,
                   inlineVars>>

\* return PRDiff(files=files, truncated=truncated)
fetch_pr_diff_return ==
    /\ pc = "fetch_pr_diff"
    /\ fileIdx > Len(hostFiles)
    /\ pr_diff' = <<[files |-> files, truncated |-> truncated]>>
    /\ pc' = "ingested"
    /\ UNCHANGED <<stripped, configVars, contextVars, cfg, hostFiles, outcome, ingestVars, reviewVars, hostVars,
                   inlineVars>>

----------------------------------------------------------------------------
(* models.py *)

\* InlineReview: line_number ge=1, comment min_length=1.
InlineReview_valid(r) ==
    /\ r.line_number >= 1
    /\ Len(r.comment) >= 1

\* A buggy schema: the score's upper bound is not checked.
ReviewResult_valid_noUpper(data) ==
    /\ data.kind = "object"
    /\ data.summary # <<>> /\ Len(data.summary[1]) >= 1
    /\ data.score # <<>> /\ data.score[1] >= 0
    /\ \A k \in 1..Len(data.reviews) : InlineReview_valid(data.reviews[k])

\* ReviewResult.model_validate(data): summary required, min_length=1; score
\* required, ge=0, le=100; reviews defaults to [], each an InlineReview.
ReviewResult_valid(data) ==
    /\ data.kind = "object"
    /\ data.summary # <<>> /\ Len(data.summary[1]) >= 1
    /\ data.score # <<>> /\ data.score[1] >= 0 /\ data.score[1] <= 100
    /\ \A k \in 1..Len(data.reviews) : InlineReview_valid(data.reviews[k])

\* The validated model: the fields as given, nothing clamped or defaulted
\* but the absent reviews list.
ReviewResult(data) ==
    [summary |-> data.summary[1], score |-> data.score[1],
     reviews |-> data.reviews, file_summaries |-> <<>>]

FileReviewSummary(file_path, score, summary, comment_count) ==
    [file_path |-> file_path, score |-> score, summary |-> summary,
     comment_count |-> comment_count]

\* A buggy result: the score is the average of the per-file scores.
FullReviewResult_average(summary, score, reviews, file_summaries) ==
    [summary |-> summary,
     score |-> IF file_summaries = <<>> THEN score
               ELSE SumSeq([k \in 1..Len(file_summaries) |->
                               file_summaries[k].score])
                    \div Len(file_summaries),
     reviews |-> reviews,
     file_summaries |-> file_summaries]

FullReviewResult(summary, score, reviews, file_summaries) ==
    [summary |-> summary, score |-> score, reviews |-> reviews,
     file_summaries |-> file_summaries]

----------------------------------------------------------------------------
(* llm_client.py *)

\* A response text is a sequence of tokens: the fence ```, a language tag,
\* a newline, a blank, a JSON document (with its parsed value) or other text.
Tok(t) == [t |-> t, v |-> <<>>]
Doc(data) == [t |-> "doc", v |-> <<data>>]
IsSpace(tok) == tok.t \in {"nl", "ws"}

\* str.strip()
RECURSIVE LStrip(_)
LStrip(text) ==
    IF text # <<>> /\ IsSpace(Head(text)) THEN LStrip(Tail(text)) ELSE text

RECURSIVE RStrip(_)
RStrip(text) ==
    IF text # <<>> /\ IsSpace(text[Len(text)])
    THEN RStrip(SubSeq(text, 1, Len(text) - 1)) ELSE text

Strip(text) == RStrip(LStrip(text))

\* str.find("\n"): the first newline's index, 0 when there is none.
FindNewline(text) ==
    IF \E k \in 1..Len(text) : text[k].t = "nl"
    THEN CHOOSE k \in 1..Len(text) :
            text[k].t = "nl" /\ \A j \in 1..(k - 1) : text[j].t # "nl"
    ELSE 0

\* A _strip_code_fences that forgets the closing fence.
strip_code_fences_opening_only(text) ==
    LET cleaned0 == Strip(text)
    IN  Strip(IF cleaned0 # <<>> /\ Head(cleaned0).t = "fence"
              THEN IF FindNewline(cleaned0) # 0
                   THEN SubSeq(cleaned0, FindNewline(cleaned0) + 1,
                               Len(cleaned0))
                   ELSE Tail(cleaned0)
              ELSE cleaned0)

\* _strip_code_fences
strip_code_fences(text) ==
    LET cleaned0 == Strip(text)
        cleaned1 ==
            IF cleaned0 # <<>> /\ Head(cleaned0).t = "fence"
            THEN IF FindNewline(cleaned0) # 0
                 THEN SubSeq(cleaned0, FindNewline(cleaned0) + 1, Len(cleaned0))
                 ELSE Tail(cleaned0)
            ELSE cleaned0
        cleaned2 ==
            IF cleaned1 # <<>> /\ cleaned1[Len(cleaned1)].t = "fence"
            THEN SubSeq(cleaned1, 1, Len(cleaned1) - 1)
            ELSE cleaned1
    IN  Strip(cleaned2)

\* json.loads succeeds on exactly one JSON document.
json_loads_ok(cleaned) == Len(cleaned) = 1 /\ cleaned[1].t = "doc"

LLMExit(why) == [ok |-> FALSE, error |-> why, result |-> <<>>]

\* A buggy call_llm: an out-of-schema document is passed on, not rejected.
call_llm_lenient(resp) ==
    IF resp.transport # "ok" THEN LLMExit("transport")
    ELSE IF resp.content = <<>> \/ resp.content[1] = <<>> THEN LLMExit("empty")
    ELSE LET cleaned == strip_code_fences(resp.content[1])
         IN  IF ~json_loads_ok(cleaned) THEN LLMExit("json")
             ELSE IF ~ReviewResult_valid_noUpper(cleaned[1].v[1])
                  THEN LLMExit("schema")
             ELSE [ok |-> TRUE, error |-> "",
                   result |-> <<ReviewResult(cleaned[1].v[1])>>]

\* call_llm, from the endpoint's response on: sys.exit(1) on a transport
\* failure, an empty content (None or ""), a JSON error, a schema error.
\* content is <<>> for None, <<text>> otherwise.
call_llm(resp) ==
    IF resp.transport # "ok" THEN LLMExit("transport")
    ELSE IF resp.content = <<>> \/ resp.content[1] = <<>> THEN LLMExit("empty")
    ELSE LET cleaned == strip_code_fences(resp.content[1])
         IN  IF ~json_loads_ok(cleaned) THEN LLMExit("json")
             ELSE IF ~ReviewResult_valid(cleaned[1].v[1]) THEN LLMExit("schema")
             ELSE [ok |-> TRUE, error |-> "",
                   result |-> <<ReviewResult(cleaned[1].v[1])>>]

\* cleaned = _strip_code_fences(raw_text) in call_llm, on its own.
call_strip_code_fences ==
    /\ pc = "strip_code_fences"
    /\ stripped' = <<strip_code_fences(llmResp[1].content[1])>>
    /\ pc' = "stripped"
    /\ UNCHANGED <<configVars, contextVars, cfg, hostFiles, outcome, pr_diff,
                   ingestVars, reviewVars, hostVars, inlineVars>>

----------------------------------------------------------------------------
(* github_client.py *)

MaxDistance == 5
FallbackCap == 10
MaxRetries == 3

OK == 200
ErrorStatuses == {403, 404, 422, 429, 500}
HostStatuses == {OK} \cup ErrorStatuses

RECURSIVE Pow2(_)
Pow2(n) == IF n = 0 THEN 1 ELSE 2 * Pow2(n - 1)

Abs(x) == IF x < 0 THEN -x ELSE x

\* An issue comment of the host.  marker: the body holds _MARKER.
Comment(marker, text, score, path, line, count, file_summaries) ==
    [marker |-> marker, text |-> text, score |-> score, path |-> path,
     line |-> line, count |-> count, file_summaries |-> file_summaries]

\* _build_summary_body: the marker, "<score>/100", the summary, the per-file
\* sections, the number of inline reviews.
build_summary_body(res) ==
    Comment(TRUE, res.summary, res.score, "", 0, Len(res.reviews),
            res.file_summaries)

\* The loop of _find_nearest_valid_line over valid_lines in the set's
\* iteration order; best is <<>> for None.
RECURSIVE NearestLoop(_, _, _, _)
NearestLoop(target, order, best, best_dist) ==
    IF order = <<>> THEN <<best, best_dist>>
    ELSE LET line == Head(order)
             dist == Abs(line - target)
         IN  IF dist < best_dist
             THEN NearestLoop(target, Tail(order), <<line>>, dist)
             ELSE NearestLoop(target, Tail(order), best, best_dist)

\* A buggy search: the first line within range, not the nearest.
find_nearest_valid_line_first(target, order, max_distance) ==
    IF \E k \in 1..Len(order) : Abs(order[k] - target) <= max_distance
    THEN <<order[CHOOSE k \in 1..Len(order) :
                /\ Abs(order[k] - target) <= max_distance
                /\ \A j \in 1..(k - 1) : Abs(order[j] - target) > max_distance]>>
    ELSE <<>>

\* _find_nearest_valid_line; <<>> for None.
\* A reconciliation that keeps the line the LLM gave when the file has
\* added lines.
find_nearest_valid_line_unsnapped(target, order, max_distance) ==
    IF order = <<>> THEN <<>> ELSE <<target>>

find_nearest_valid_line(target, order, max_distance) ==
    IF order = <<>> THEN <<>>
    ELSE LET r == NearestLoop(target, order, <<>>, max_distance + 1)
         IN  IF r[2] <= max_distance THEN r[1] ELSE <<>>

\* changed_lines.get(path, set()), in the set's iteration order.
FileLinesOrder(cl, path) == IF path \in DOMAIN cl THEN cl[path] ELSE <<>>

\* The payload loop of post_inline_comments: keep, snap or skip each review.
RECURSIVE BuildPayload(_, _)
BuildPayload(reviews, cl) ==
    IF reviews = <<>> THEN <<>>
    ELSE LET review == Head(reviews)
             order == FileLinesOrder(cl, review.file_path)
             nearest == find_nearest_valid_line(review.line_number, order,
                                                MaxDistance)
             rest == BuildPayload(Tail(reviews), cl)
             entry(line) == [path |-> review.file_path, line |-> line,
                             body |-> review.comment]
         IN  IF review.line_number \in Range(order)
             THEN <<entry(review.line_number)>> \o rest
             ELSE IF nearest # <<>> THEN <<entry(nearest[1])>> \o rest
             ELSE rest


\* A buggy cap: one comment too many is posted.
FallbackCapReached_late(n) == n > FallbackCap

\* if posted >= 10
FallbackCapReached(n) == n >= FallbackCap

\* A narrower fallback: only 403 and 422 fall back, any other status raises.
ReviewErrorFallsBack_narrow(status) == status \in {403, 422}

\* The statuses of a rejected create_review after which the individual
\* comments are posted: 403, 422 and, by the else branch, every other one.
ReviewErrorFallsBack(status) == status = 403 \/ status = 422 \/ TRUE

\* A buggy test: a permission error is retried as well.
Retryable_with403(status) == status = 429 \/ status >= 500 \/ status = 403

\* if status == 429 or status >= 500
Retryable(status) == status = 429 \/ status >= 500

\* The wrapper's locals; last is the status func() answered with the last
\* time it was invoked (0 before).
NoRetry ==
    [caller |-> "none", attempt |-> 0, body |-> <<>>, sleeps |-> <<>>,
     last |-> 0]

StartRetry(caller, body) ==
    [caller |-> caller, attempt |-> 0, body |-> <<body>>, sleeps |-> <<>>,
     last |-> 0]

\* The wrapper has returned or raised: its attempt count, its sleeps and the
\* last status stay readable until it is called again.
EndRetry(r, status) ==
    [r EXCEPT !.caller = "none", !.body = <<>>, !.last = status]

\* A wrapper whose loop runs once more than max_retries.
RetryAgain_extra(status, attempt) ==
    status # OK /\ attempt <= MaxRetries /\ Retryable(status)

\* func() raised inside the loop `for attempt in range(max_retries)` with a
\* status that is retried: the wrapper sleeps and invokes func() again.
RetryAgain(status, attempt) ==
    status # OK /\ attempt < MaxRetries /\ Retryable(status)

\* post_summary_comment up to the creation of a new comment: list the issue
\* comments, edit the first one that holds the marker.  A GithubException of
\* the listing or of the edit is logged and a new comment is created.
post_summary_comment ==
    /\ pc = "post_summary_comment"
    /\ \E list_status \in HostStatuses, edit_status \in HostStatuses :
        LET body == build_summary_body(result[1])
            marked == {k \in 1..Len(prComments) : prComments[k].marker}
            first == CHOOSE k \in marked : \A j \in marked : k <= j
        IN  IF list_status = OK /\ marked # {}
            THEN /\ hostCalls' = [hostCalls EXCEPT !.edit = @ + 1,
                                                    !.edit_status = edit_status]
                 /\ IF edit_status = OK
                    THEN /\ prComments' = [prComments EXCEPT ![first] = body]
                         /\ pc' = "done"
                         /\ outcome' = "Posted"
                         /\ retry' = retry
                    ELSE /\ pc' = "retry_github_call"
                         /\ retry' = StartRetry("summary", body)
                         /\ UNCHANGED <<prComments, outcome>>
            ELSE /\ edit_status = OK
                 /\ pc' = "retry_github_call"
                 /\ retry' = StartRetry("summary", body)
                 /\ UNCHANGED <<prComments, outcome, hostCalls>>
    /\ UNCHANGED <<stripped, configVars, contextVars, cfg, hostFiles, pr_diff, ingestVars, reviewVars, prCommits,
                   prReviews, inlineVars>>

\* One invocation of func() in _retry_github_call (func creates an issue
\* comment), with what follows it in the wrapper and, when the wrapper
\* returns or raises, in its caller.
retry_github_call ==
    /\ pc = "retry_github_call"
    /\ \E status \in HostStatuses :
        LET body == retry.body[1]
            again == RetryAgain(status, retry.attempt)
            \* post_inline_comments: posted += 1, the cap, the next comment
            posted1 == IF status = OK THEN posted + 1 ELSE posted
        IN  /\ hostCalls' = [hostCalls EXCEPT !.issue_comment_attempted = TRUE]
            /\ prComments' = IF status = OK THEN Append(prComments, body)
                             ELSE prComments
            /\ IF again
               THEN /\ retry' = [retry EXCEPT
                                    !.attempt = @ + 1,
                                    !.sleeps = Append(@, Pow2(retry.attempt)),
                                    !.last = status]
                    /\ UNCHANGED <<pc, outcome, posted, payloadIdx>>
               ELSE /\ retry' = EndRetry(retry, status)
                    /\ IF retry.caller = "summary"
                       THEN /\ pc' = "done"
                            /\ outcome' = IF status = OK THEN "Posted"
                                          ELSE "Error1"
                            /\ UNCHANGED <<posted, payloadIdx>>
                       ELSE /\ posted' = posted1
                            /\ payloadIdx' = payloadIdx + 1
                            /\ pc' = IF FallbackCapReached(posted1)
                                     THEN "fallback_end" ELSE "fallback_loop"
                            /\ UNCHANGED outcome
    /\ UNCHANGED <<stripped, configVars, contextVars, cfg, hostFiles, pr_diff, ingestVars, reviewVars, prCommits,
                   prReviews, changed_lines, comments_payload, reviewStatus>>

\* post_inline_comments up to the batched call: no reviews, no commits or an
\* empty payload return at once.
post_inline_comments ==
    /\ pc = "post_inline_comments"
    /\ LET payload == BuildPayload(result[1].reviews, changed_lines)
       IN  IF result[1].reviews = <<>> \/ prCommits = 0
           THEN /\ pc' = "done"
                /\ outcome' = "Returned"
                /\ UNCHANGED comments_payload
           ELSE /\ comments_payload' = payload
                /\ IF payload = <<>>
                   THEN pc' = "done" /\ outcome' = "Returned"
                   ELSE pc' = "create_review" /\ UNCHANGED outcome
    /\ UNCHANGED <<stripped, configVars, contextVars, cfg, hostFiles, pr_diff, ingestVars, reviewVars, hostVars,
                   changed_lines, payloadIdx, posted, reviewStatus>>

\* pr.create_review(...): on success return; a GithubException starts the
\* fallback loop.
create_review ==
    /\ pc = "create_review"
    /\ \E status \in HostStatuses :
        /\ hostCalls' = [hostCalls EXCEPT !.create_review = @ + 1]
        /\ reviewStatus' = status
        /\ IF status = OK
           THEN /\ prReviews' = Append(prReviews, comments_payload)
                /\ pc' = "done"
                /\ outcome' = "Returned"
                /\ UNCHANGED <<posted, payloadIdx>>
           ELSE IF ReviewErrorFallsBack(status)
           THEN /\ posted' = 0
                /\ payloadIdx' = 1
                /\ pc' = "fallback_loop"
                /\ UNCHANGED <<prReviews, outcome>>
           ELSE /\ pc' = "done"
                /\ outcome' = "Raised"
                /\ UNCHANGED <<prReviews, posted, payloadIdx>>
    /\ UNCHANGED <<stripped, configVars, contextVars, cfg, hostFiles, pr_diff, ingestVars, reviewVars, prCommits,
                   prComments, retry, changed_lines, comments_payload>>

\* The body of one individual comment: "**path** (line n)" and the text.
FallbackBody(comment_data) ==
    Comment(FALSE, comment_data.body, -1, comment_data.path,
            comment_data.line, 0, <<>>)

\* The next iteration of the fallback loop: post one comment through
\* _retry_github_call.
fallback_comment ==
    /\ pc = "fallback_loop"
    /\ payloadIdx <= Len(comments_payload)
    /\ retry' = StartRetry("fallback", FallbackBody(comments_payload[payloadIdx]))
    /\ pc' = "retry_github_call"
    /\ UNCHANGED <<stripped, configVars, contextVars, cfg, hostFiles, outcome, pr_diff, ingestVars, reviewVars,
                   prCommits, prComments, prReviews, hostCalls, inlineVars>>

\* The end of the fallback loop, by exhaustion or by the break at the cap.
fallback_end ==
    /\ \/ pc = "fallback_loop" /\ payloadIdx > Len(comments_payload)
       \/ pc = "fallback_end"
    /\ pc' = "done"
    /\ outcome' = "Returned"
    /\ UNCHANGED <<stripped, configVars, contextVars, cfg, hostFiles, pr_diff, ingestVars, reviewVars, hostVars,
                   inlineVars>>

----------------------------------------------------------------------------
(* context.py *)

MAX_CONTEXT_CHARS == 3000
MaxBlockLines == 50

\* len(f"{i + 1:4d} | ") for line numbers below 10000
PrefixLen == 7
\* len("     | ... (truncated)")
MarkerLen == 22

\* A source line, by what the extraction reads of it: its length, its
\* leading whitespace, whether it is blank (not line.strip()) and whether one
\* of _BLOCK_PATTERNS matches it.
SourceLine(len, indent, blank, block) ==
    [len |-> len, indent |-> indent, blank |-> blank, block |-> block]

\* _get_indent
get_indent(line) == line.indent

Min(a, b) == IF a <= b THEN a ELSE b

\* A backward walk that stops at the first shallower or pattern line.
RECURSIVE BlockStartWalk_nearest(_, _, _, _)
BlockStartWalk_nearest(lines, idx, target_indent, block_start) ==
    IF idx < 0 THEN block_start
    ELSE LET line == lines[idx + 1]
         IN  IF ~line.blank /\ (get_indent(line) < target_indent \/ line.block)
             THEN idx
             ELSE BlockStartWalk_nearest(lines, idx - 1, target_indent,
                                         block_start)

\* The backward walk of _find_enclosing_block from index idx (0-based) down
\* to 0.
RECURSIVE BlockStartWalk(_, _, _, _)
BlockStartWalk(lines, idx, target_indent, block_start) ==
    IF idx < 0 THEN block_start
    ELSE LET line == lines[idx + 1]
         IN  IF line.blank
             THEN BlockStartWalk(lines, idx - 1, target_indent, block_start)
             ELSE IF get_indent(line) < target_indent \/ line.block
             THEN IF line.block THEN idx
                  ELSE BlockStartWalk(lines, idx - 1, target_indent, idx)
             ELSE BlockStartWalk(lines, idx - 1, target_indent, block_start)

\* The forward walk of _find_enclosing_block from index idx to the last line.
RECURSIVE BlockEndWalk(_, _, _, _)
BlockEndWalk(lines, idx, start_indent, block_end) ==
    IF idx >= Len(lines) THEN block_end
    ELSE LET line == lines[idx + 1]
         IN  IF line.blank
             THEN BlockEndWalk(lines, idx + 1, start_indent, idx)
             ELSE IF get_indent(line) <= start_indent /\ line.block
             THEN block_end
             ELSE BlockEndWalk(lines, idx + 1, start_indent, idx)

\* _find_enclosing_block(lines, target_idx): <<block_start, block_end>>,
\* 0-based and inclusive, clamped to about 50 lines around the target.
find_enclosing_block(lines, target_idx) ==
    LET target_indent == get_indent(lines[target_idx + 1])
        block_start == BlockStartWalk(lines, target_idx - 1, target_indent,
                                      target_idx)
        block_end == BlockEndWalk(lines, target_idx + 1,
                                  get_indent(lines[block_start + 1]), target_idx)
        half == MaxBlockLines \div 2
    IN  IF block_end - block_start > MaxBlockLines
        THEN <<Max(block_start, target_idx - half),
               Min(block_end, target_idx + half)>>
        ELSE <<block_start, block_end>>

\* sorted(ranges): insertion of a pair into a sorted list of pairs.
RECURSIVE InsertRange(_, _)
InsertRange(r, sorted) ==
    IF sorted = <<>> THEN <<r>>
    ELSE LET h == Head(sorted)
         IN  IF r[1] < h[1] \/ (r[1] = h[1] /\ r[2] <= h[2])
             THEN <<r>> \o sorted
             ELSE <<h>> \o InsertRange(r, Tail(sorted))

RECURSIVE SortRanges(_)
SortRanges(ranges) ==
    IF ranges = <<>> THEN <<>>
    ELSE InsertRange(Head(ranges), SortRanges(Tail(ranges)))

\* A buggy test: only overlapping ranges are merged.
MergesWithPrevious_overlap(start, prev_end) == start <= prev_end

\* if start <= prev_end + 2
MergesWithPrevious(start, prev_end) == start <= prev_end + 2

\* The loop of _merge_ranges over sorted_ranges[1:].
RECURSIVE MergeLoop(_, _)
MergeLoop(acc, rest) ==
    IF rest = <<>> THEN acc
    ELSE LET prev == acc[Len(acc)]
             r == Head(rest)
         IN  IF MergesWithPrevious(r[1], prev[2])
             THEN MergeLoop([acc EXCEPT ![Len(acc)] = <<prev[1], Max(prev[2], r[2])>>],
                            Tail(rest))
             ELSE MergeLoop(Append(acc, r), Tail(rest))

\* _merge_ranges
merge_ranges(ranges) ==
    IF ranges = <<>> THEN <<>>
    ELSE LET sorted_ranges == SortRanges(ranges)
         IN  MergeLoop(<<Head(sorted_ranges)>>, Tail(sorted_ranges))

\* The loop `for line_no in sorted(changed_lines)` from line_no on: the
\* block of every changed line that is inside the file.
RECURSIVE ContextRanges(_, _, _)
ContextRanges(lines, changed, line_no) ==
    IF \A l \in changed : l < line_no THEN <<>>
    ELSE IF line_no \notin changed \/ line_no < 1 \/ line_no > Len(lines)
    THEN ContextRanges(lines, changed, line_no + 1)
    ELSE <<find_enclosing_block(lines, line_no - 1)>>
         \o ContextRanges(lines, changed, line_no + 1)

\* One element of parts: a numbered source line, the blank line between
\* ranges or the truncation marker; lead and trail are its leading and
\* trailing whitespace.
Part(kind, len, lead, trail) ==
    [kind |-> kind, len |-> len, lead |-> lead, trail |-> trail]

\* f"{i + 1:4d} | {lines[i]}" for the 0-based index idx
LineText(lines, idx) ==
    LET line == lines[idx + 1]
        digits == IF idx + 1 < 10 THEN 1 ELSE IF idx + 1 < 100 THEN 2 ELSE 3
    IN  Part("line", PrefixLen + line.len, 4 - digits,
             IF line.blank THEN line.len + 1 ELSE 0)

TruncationMarker == Part("marker", MarkerLen, 5, 0)
BlankPart == Part("blank", 0, 0, 0)

\* len("\n".join(parts))
JoinLen(ps) ==
    IF ps = <<>> THEN 0
    ELSE SumSeq([k \in 1..Len(ps) |-> ps[k].len]) + (Len(ps) - 1)

\* "\n".join(parts).strip(): the empty parts at both ends go with their
\* newlines, then the whitespace that starts the first part left and ends
\* the last one.
RECURSIVE StripParts(_)
StripParts(ps) ==
    IF ps = <<>> THEN <<>>
    ELSE IF Head(ps).len = Head(ps).lead THEN StripParts(Tail(ps))
    ELSE IF ps[Len(ps)].len = ps[Len(ps)].trail
    THEN StripParts(SubSeq(ps, 1, Len(ps) - 1))
    ELSE ps

StrippedLen(ps) ==
    LET kept == StripParts(ps)
    IN  IF kept = <<>> THEN 0
        ELSE JoinLen(kept) - kept[1].lead - kept[Len(kept)].trail

\* The value returned: None, or a text by its length and whether it ends
\* with the truncation marker.
NoContextText == <<[none |-> TRUE, len |-> 0, truncated |-> FALSE]>>

ContextText(len, ps) ==
    <<[none |-> FALSE, len |-> len,
       truncated |-> ps # <<>> /\ ps[Len(ps)].kind = "marker"]>>

\* not (total_chars + len(line_text) > max_chars)
LineFits(total, line_len, ceiling) == ~(total + line_len > ceiling)

\* extract_surrounding_context up to the loop over merged: None for no
\* changed lines, an empty source or no changed line inside the file.
extract_surrounding_context ==
    /\ pc = "extract_surrounding_context"
    /\ LET ranges == ContextRanges(full_source, context_changed_lines, 1)
       IN  IF context_changed_lines = {} \/ full_source = <<>> \/ ranges = <<>>
           THEN /\ pc' = "done"
                /\ context_code' = NoContextText
                /\ UNCHANGED <<context_ranges, merged, rangeIdx, lineIdx>>
           ELSE /\ context_ranges' = ranges
                /\ merged' = merge_ranges(ranges)
                /\ rangeIdx' = 1
                /\ lineIdx' = merged'[1][1]
                /\ pc' = "context_loop"
                /\ UNCHANGED context_code
    /\ UNCHANGED <<stripped, configVars, full_source, context_changed_lines, max_chars, parts,
                   context_total_chars, cfg, hostFiles, outcome, pr_diff,
                   ingestVars, reviewVars, hostVars, inlineVars>>

\* start, end = _find_enclosing_block(lines, line_no - 1) and the append to
\* context_ranges, for the one changed line of the input.
call_find_enclosing_block ==
    /\ pc = "find_enclosing_block"
    /\ \E line_no \in context_changed_lines :
        context_ranges' =
            Append(context_ranges,
                   find_enclosing_block(full_source, line_no - 1))
    /\ pc' = "block_found"
    /\ UNCHANGED <<stripped, configVars, full_source, context_changed_lines, max_chars,
                   merged, rangeIdx, lineIdx, parts, context_total_chars,
                   context_code, cfg, hostFiles, outcome, pr_diff, ingestVars,
                   reviewVars, hostVars, inlineVars>>

\* merged = _merge_ranges(context_ranges), on its own.
call_merge_ranges ==
    /\ pc = "merge_ranges"
    /\ merged' = merge_ranges(context_ranges)
    /\ pc' = "merged"
    /\ UNCHANGED <<stripped, configVars, full_source, context_changed_lines, max_chars,
                   context_ranges, rangeIdx, lineIdx, parts,
                   context_total_chars, context_code, cfg, hostFiles, outcome,
                   pr_diff, ingestVars, reviewVars, hostVars, inlineVars>>

\* One iteration of `for i in range(start, min(end + 1, len(lines)))`: the
\* line is appended, or the marker is and the text returned.
context_line ==
    /\ pc = "context_loop"
    /\ rangeIdx <= Len(merged)
    /\ lineIdx < Min(merged[rangeIdx][2] + 1, Len(full_source))
    /\ LET line_text == LineText(full_source, lineIdx)
       IN  IF LineFits(context_total_chars, line_text.len, max_chars)
           THEN /\ parts' = Append(parts, line_text)
                /\ context_total_chars' = context_total_chars + line_text.len + 1
                /\ lineIdx' = lineIdx + 1
                /\ UNCHANGED <<pc, context_code>>
           ELSE /\ parts' = Append(parts, TruncationMarker)
                /\ context_code' = ContextText(JoinLen(parts'), parts')
                /\ pc' = "done"
                /\ UNCHANGED <<context_total_chars, lineIdx>>
    /\ UNCHANGED <<stripped, configVars, full_source, context_changed_lines, max_chars,
                   context_ranges, merged,
                   rangeIdx, cfg, hostFiles, outcome, pr_diff, ingestVars,
                   reviewVars, hostVars, inlineVars>>

\* The end of a range: the blank line between ranges, then the next range.
context_range_end ==
    /\ pc = "context_loop"
    /\ rangeIdx <= Len(merged)
    /\ lineIdx >= Min(merged[rangeIdx][2] + 1, Len(full_source))
    /\ parts' = Append(parts, BlankPart)
    /\ rangeIdx' = rangeIdx + 1
    /\ lineIdx' = IF rangeIdx < Len(merged) THEN merged[rangeIdx + 1][1]
                  ELSE lineIdx
    /\ UNCHANGED <<stripped, configVars, full_source, context_changed_lines, max_chars,
                   context_ranges, merged,
                   context_total_chars, context_code, pc, cfg, hostFiles,
                   outcome, pr_diff, ingestVars, reviewVars, hostVars,
                   inlineVars>>

\* After the last range: the joined text, stripped, or None when empty.
context_return ==
    /\ pc = "context_loop"
    /\ rangeIdx > Len(merged)
    /\ context_code' = IF StrippedLen(parts) = 0 THEN NoContextText
                       ELSE ContextText(StrippedLen(parts), StripParts(parts))
    /\ pc' = "done"
    /\ UNCHANGED <<stripped, configVars, full_source, context_changed_lines, max_chars,
                   context_ranges, merged,
                   rangeIdx, lineIdx, parts, context_total_chars, cfg,
                   hostFiles, outcome, pr_diff, ingestVars, reviewVars,
                   hostVars, inlineVars>>

----------------------------------------------------------------------------
(* main.py *)

MULTI_FILE_THRESHOLD == 3

\* A buggy threshold test: a PR of exactly 3 files goes multi-file.
UseSinglePass_strict(n) == n < MULTI_FILE_THRESHOLD

\* if len(pr_diff.files) <= MULTI_FILE_THRESHOLD
UseSinglePass(n) == n <= MULTI_FILE_THRESHOLD

\* A buggy loop bound: the merge is issued before the last file's review.
MultiFileLoopDone_early(idx, n) == idx >= n

\* The for loop over pr_diff.files is over.
MultiFileLoopDone(idx, n) == idx > n

\* The responses the endpoint may give, each with what it is (class): the
\* model of call_llm never reads the class.
InlineReview(file_path, line_number, comment) ==
    [file_path |-> file_path, line_number |-> line_number, comment |-> comment]

JsonObject(summary, score, reviews) ==
    [kind |-> "object", summary |-> summary, score |-> score, reviews |-> reviews]

ValidData(p, kind) ==
    { JsonObject(<<"Fine">>, <<70>>, <<InlineReview(p, 2, "ok")>>),
      JsonObject(<<"Good">>, <<100>>, <<>>) }
    \cup IF kind = "file" THEN {}
         ELSE { JsonObject(<<"Bad">>, <<0>>, <<InlineReview(p, 9, "no")>>) }

InvalidData(p) ==
    { JsonObject(<<"Fine">>, <<150>>, <<>>),
      JsonObject(<<"Fine">>, <<101>>, <<InlineReview(p, 2, "ok")>>),
      JsonObject(<<"Fine">>, <<-1>>, <<>>),
      JsonObject(<<"">>, <<70>>, <<>>),
      JsonObject(<<>>, <<70>>, <<>>),
      JsonObject(<<"Fine">>, <<>>, <<>>),
      JsonObject(<<"Fine">>, <<70>>, <<InlineReview(p, 0, "ok")>>),
      JsonObject(<<"Fine">>, <<70>>, <<InlineReview(p, 2, "ok"), InlineReview(p, 1, "")>>),
      [kind |-> "array", summary |-> <<>>, score |-> <<>>, reviews |-> <<>>] }

Fenced(tag, doc) ==
    <<Tok("fence")>> \o tag \o <<Tok("nl"), doc, Tok("nl"), Tok("fence")>>

Response(transport, content, class) ==
    [transport |-> transport, content |-> content, class |-> class]

LLMResponses(p, kind) ==
    { Response("error", <<>>, "transport"),
      Response("ok", <<>>, "empty"),
      Response("ok", << <<>> >>, "empty"),
      Response("ok", << <<Tok("text")>> >>, "unparseable"),
      Response("ok", << <<Tok("ws"), Tok("nl")>> >>, "unparseable"),
      Response("ok", << <<Tok("fence"), Tok("nl"), Tok("fence")>> >>, "unparseable") }
    \cup { Response("ok", << <<Doc(d)>> >>, "valid") : d \in ValidData(p, kind) }
    \cup { Response("ok", << Fenced(tag, Doc(d)) >>, "valid") :
            d \in {JsonObject(<<"Good">>, <<100>>, <<>>)},
            tag \in {<<>>, <<Tok("tag")>>} }
    \cup { Response("ok", << <<Doc(d)>> >>, "schema") : d \in InvalidData(p) }
    \cup { Response("ok", << Fenced(<<Tok("tag")>>, Doc(d)) >>, "schema") :
            d \in {JsonObject(<<"Fine">>, <<150>>, <<>>)} }

\* max_tokens=1024 of the merge call
MergeMaxTokens == 1024

\* One call_llm invocation: what the prompt is about and the temperature and
\* max_tokens arguments.
LLMCall(kind, path, fetched, temperature, max_tokens) ==
    [kind |-> kind, path |-> path, fetched |-> fetched,
     temperature |-> temperature, max_tokens |-> max_tokens]

\* A buggy test: an empty PRDiff is reviewed like any other.
NoReviewableFiles_never(n) == n < 0

\* if not pr_diff.files
NoReviewableFiles(n) == n = 0

\* _print_dry_run: what it writes to the log: the summary, the score and
\* one line per inline review.
print_dry_run(res) ==
    [summary |-> res.summary, score |-> res.score,
     lines |-> [k \in 1..Len(res.reviews) |->
                  <<res.reviews[k].file_path, res.reviews[k].line_number,
                    res.reviews[k].comment>>]]

\* run(), after fetch_pr_diff: the early exit on no files, the strategy;
\* _single_pass_review builds its prompt and calls the LLM.
run_choose_strategy ==
    /\ pc = "ingested"
    /\ LET n == Len(pr_diff[1].files)
       IN  IF NoReviewableFiles(n)
           THEN /\ pc' = "done"
                /\ outcome' = "Empty"
                /\ UNCHANGED <<strategy, i, llmCalls>>
           ELSE IF UseSinglePass(n)
           THEN /\ strategy' = strategy \cup {"single"}
                /\ llmCalls' = Append(llmCalls, LLMCall("whole_pr", "", FALSE,
                                        cfg.temperature, cfg.max_tokens))
                /\ pc' = "call_llm"
                /\ UNCHANGED <<outcome, i>>
           ELSE /\ strategy' = strategy \cup {"multi"}
                /\ i' = 1
                /\ pc' = "multi_file_loop"
                /\ UNCHANGED <<outcome, llmCalls>>
    /\ UNCHANGED <<stripped, configVars, contextVars, cfg, hostFiles, pr_diff, ingestVars, llmDone, llmError,
                   llmResp, llmResults, all_reviews,
                   file_review_summaries, result,
                   printed, hostVars, inlineVars>>

\* One iteration of the loop of _multi_file_review up to its call_llm: the
\* file's content is fetched only when the file has added lines.
multi_file_review_file ==
    /\ pc = "multi_file_loop"
    /\ ~MultiFileLoopDone(i, Len(pr_diff[1].files))
    /\ i <= Len(pr_diff[1].files)
    /\ LET file_diff == pr_diff[1].files[i]
       IN  llmCalls' = Append(llmCalls,
                LLMCall("file", file_diff.path, file_diff.added_lines # {},
                        cfg.temperature, cfg.max_tokens))
    /\ pc' = "call_llm"
    /\ UNCHANGED <<stripped, configVars, contextVars, cfg, hostFiles, outcome, pr_diff, ingestVars, strategy, i,
                   llmDone, llmError, llmResp, llmResults, all_reviews,
                   file_review_summaries, result, printed, hostVars,
                   inlineVars>>

\* After the loop: the merge prompt and its call_llm.
multi_file_review_merge ==
    /\ pc = "multi_file_loop"
    /\ MultiFileLoopDone(i, Len(pr_diff[1].files))
    /\ llmCalls' = Append(llmCalls, LLMCall("merge", "", FALSE,
                                        cfg.temperature, MergeMaxTokens))
    /\ pc' = "call_llm"
    /\ UNCHANGED <<stripped, configVars, contextVars, cfg, hostFiles, outcome, pr_diff, ingestVars, strategy, i,
                   llmDone, llmError, llmResp, llmResults, all_reviews,
                   file_review_summaries, result, printed, hostVars,
                   inlineVars>>

\* call_llm returns or exits, and its caller goes on: run() with the
\* single-pass result, the loop with the next file, or the FullReviewResult.
call_llm_return ==
    /\ pc = "call_llm"
    /\ LET call == llmCalls[Len(llmCalls)]
           p == IF call.kind = "file" THEN call.path
                ELSE pr_diff[1].files[1].path
       IN  \E resp \in LLMResponses(p, call.kind) :
            LET r == call_llm(resp)
            IN  /\ llmResp' = <<resp>>
                /\ llmDone' = llmDone + 1
                /\ llmResults' = IF r.ok THEN llmResults \o r.result
                                  ELSE llmResults
                /\ IF ~r.ok
                   THEN /\ llmError' = r.error
                        /\ pc' = "done"
                        /\ outcome' = "SystemExit1"
                        /\ UNCHANGED <<i, all_reviews, file_review_summaries,
                                       result>>
                   ELSE /\ UNCHANGED <<llmError, outcome>>
                        /\ IF call.kind = "whole_pr"
                           THEN /\ result' = r.result
                                /\ pc' = "post"
                                /\ UNCHANGED <<i, all_reviews,
                                               file_review_summaries>>
                           ELSE IF call.kind = "file"
                           THEN /\ all_reviews' = all_reviews \o r.result[1].reviews
                                /\ file_review_summaries' =
                                     Append(file_review_summaries,
                                        FileReviewSummary(call.path,
                                            r.result[1].score,
                                            r.result[1].summary,
                                            Len(r.result[1].reviews)))
                                /\ i' = i + 1
                                /\ pc' = "multi_file_loop"
                                /\ UNCHANGED result
                           ELSE /\ result' = <<FullReviewResult(
                                        r.result[1].summary, r.result[1].score,
                                        all_reviews, file_review_summaries)>>
                                /\ pc' = "post"
                                /\ UNCHANGED <<i, all_reviews,
                                               file_review_summaries>>
    /\ UNCHANGED <<stripped, configVars, contextVars, cfg, hostFiles, pr_diff, ingestVars, strategy, llmCalls,
                   printed, hostVars, inlineVars>>

\* A buggy step 5: the dry-run flag is not read and the summary is posted.
run_post_ignores_dry_run ==
    /\ pc = "post"
    /\ pc' = "post_summary_comment"
    /\ UNCHANGED <<stripped, configVars, contextVars, cfg, hostFiles, outcome, pr_diff, ingestVars, reviewVars,
                   hostVars, inlineVars>>

\* Step 5 of run(): _print_dry_run, or post_summary_comment.
run_post ==
    /\ pc = "post"
    /\ IF cfg.dry_run
       THEN /\ printed' = <<print_dry_run(result[1])>>
            /\ pc' = "done"
            /\ outcome' = "DryRun"
       ELSE /\ pc' = "post_summary_comment"
            /\ UNCHANGED <<printed, outcome>>
    /\ UNCHANGED <<stripped, configVars, contextVars, cfg, hostFiles, pr_diff, ingestVars, strategy, i, llmCalls,
                   llmDone, llmError, llmResp, llmResults, all_reviews,
                   file_review_summaries, result, hostVars, inlineVars>>

\* A KeyboardInterrupt raised while run() executes: every handler on the way
\* is `except Exception` or narrower, so it reaches main(), which prints
\* "Aborted." and exits.
KeyboardInterrupt ==
    /\ outcome = "running"
    /\ outcome' = "Interrupted"
    /\ pc' = "done"
    /\ UNCHANGED <<stripped, configVars, contextVars, cfg, hostFiles, pr_diff,
                   ingestVars, reviewVars, hostVars, inlineVars>>

\* A main() that treats the interrupt as any other failure.
ExitStatus_generic(o) ==
    IF o \in {"SystemExit1", "Error1", "Interrupted"} THEN 1 ELSE 0

\* main(): SystemExit (sys.exit(1) of call_llm) passes through `except
\* Exception`; any other exception ends in sys.exit(1); KeyboardInterrupt
\* in sys.exit(130); a return in 0.
ExitStatus(o) ==
    IF o \in {"SystemExit1", "Error1"} THEN 1
    ELSE IF o = "Interrupted" THEN 130
    ELSE 0

----------------------------------------------------------------------------
(* Specifications *)

MaxFiles == 5

\* Config defaults: temperature 0.7 (in tenths), max_tokens 4096
DefaultTemperature == 7
DefaultMaxTokens == 4096

SourcePaths == <<"a.py", "b.py", "c.py", "d.py", "e.py", "f.py", "g.py">>
IgnoredPaths == <<"yarn.lock", "assets/logo.png", ".DS_Store", "go.sum",
                  "Cargo.lock", "poetry.lock", "icon.svg">>

NoHostCalls ==
    [issue_comment_attempted |-> FALSE, edit |-> 0, edit_status |-> 0,
     create_review |-> 0]

HumanComment == Comment(FALSE, "LGTM", -1, "", 0, 0, <<>>)
OldSummary == Comment(TRUE, "Old", 10, "", 0, 0, <<>>)

\* The state of the locals before the functions that own them run.
IdleIngest ==
    /\ fileIdx = 1
    /\ files = <<>>
    /\ total_chars = 0
    /\ truncated = FALSE
    /\ skipped_files = <<>>
    /\ pr_diff = <<>>

IdleReview ==
    /\ strategy = {}
    /\ i = 0
    /\ llmCalls = <<>>
    /\ llmDone = 0
    /\ llmError = ""
    /\ llmResp = <<>>
    /\ llmResults = <<>>
    /\ all_reviews = <<>>
    /\ file_review_summaries = <<>>
    /\ printed = <<>>

IdleHost ==
    /\ prReviews = <<>>
    /\ hostCalls = NoHostCalls
    /\ retry = NoRetry

\* Config.from_env is not running: no environment is looked at.
IdleConfig ==
    /\ stripped = <<>>
    /\ env = <<>>
    /\ repo_data = <<>>
    /\ resolved = <<>>

IdleContext ==
    /\ context_ranges = <<>>
    /\ merged = <<>>
    /\ rangeIdx = 0
    /\ lineIdx = 0
    /\ parts = <<>>
    /\ context_total_chars = 0
    /\ context_code = <<>>

\* extract_surrounding_context is not running.
NoContext ==
    /\ full_source = <<>>
    /\ context_changed_lines = {}
    /\ max_chars = MAX_CONTEXT_CHARS
    /\ IdleContext

IdleInline ==
    /\ comments_payload = <<>>
    /\ payloadIdx = 0
    /\ posted = 0
    /\ reviewStatus = 0

\* The pull requests of the pipeline check: at each position a source file
\* (2 added lines) or a file the built-in patterns ignore.
RunFileAt(pos) ==
    { [filename |-> SourcePaths[pos], patch |-> 1, added |-> {1, 2}, parses |-> TRUE],
      [filename |-> IgnoredPaths[pos], patch |-> 1, added |-> {1}, parses |-> TRUE] }

RECURSIVE RunFileListsOfLen(_)
RunFileListsOfLen(k) ==
    IF k = 0 THEN {<<>>}
    ELSE {Append(s, f) : s \in RunFileListsOfLen(k - 1), f \in RunFileAt(k)}

RunFileLists == UNION {RunFileListsOfLen(k) : k \in 0..MaxFiles}

Init ==
    /\ IdleConfig
    /\ hostFiles \in RunFileLists
    /\ cfg \in [dry_run : BOOLEAN,
                max_diff_chars : {0, 2, 2 * MaxFiles},
                exclude_patterns : {<<>>},
                temperature : {DefaultTemperature},
                max_tokens : {DefaultMaxTokens}]
    /\ pc = "fetch_pr_diff"
    /\ outcome = "running"
    /\ IdleIngest
    /\ IdleReview
    /\ result = <<>>
    /\ prCommits = 1
    /\ prComments \in {<<>>, <<HumanComment, OldSummary>>}
    /\ IdleHost
    /\ changed_lines = <<>>
    /\ IdleInline
    /\ NoContext

Next ==
    \/ fetch_pr_diff_file
    \/ fetch_pr_diff_return
    \/ run_choose_strategy
    \/ multi_file_review_file
    \/ multi_file_review_merge
    \/ call_llm_return
    \/ run_post
    \/ post_summary_comment
    \/ retry_github_call

Spec == Init /\ [][Next]_vars

\* post_summary_comment and the wrapper it calls, for every result and
\* every answer of the host; the wrapper's loop always goes on.
InitRetry ==
    /\ IdleConfig
    /\ hostFiles = <<>>
    /\ cfg = [dry_run |-> FALSE, max_diff_chars |-> 2 * MaxFiles,
              exclude_patterns |-> <<>>, temperature |-> DefaultTemperature,
              max_tokens |-> DefaultMaxTokens]
    /\ pc = "post_summary_comment"
    /\ outcome = "running"
    /\ IdleIngest
    /\ IdleReview
    /\ \E d \in ValidData("a.py", "whole_pr") : result = <<ReviewResult(d)>>
    /\ prCommits = 1
    /\ prComments \in {<<>>, <<HumanComment, OldSummary>>}
    /\ IdleHost
    /\ changed_lines = <<>>
    /\ IdleInline
    /\ NoContext

NextRetry ==
    \/ post_summary_comment
    \/ retry_github_call

SpecRetry ==
    InitRetry /\ [][NextRetry]_vars /\ WF_vars(retry_github_call)

\* The pipeline run with a user interrupt possible at every step.
InitInterrupt ==
    /\ Init
    /\ cfg.max_diff_chars = 2 * MaxFiles

NextInterrupt ==
    \/ Next
    \/ KeyboardInterrupt

SpecInterrupt == InitInterrupt /\ [][NextInterrupt]_vars

----------------------------------------------------------------------------
(* providers.py *)

\* str.lower on the names of the inputs.
lower(s) ==
    CASE s = "OpenAI" -> "openai"
      [] s = "DeepSeek" -> "deepseek"
      [] s = "Qwen" -> "qwen"
      [] s = "Doubao" -> "doubao"
      [] s = "Zhipu" -> "zhipu"
      [] s = "Moonshot" -> "moonshot"
      [] s = "Yi" -> "yi"
      [] s = "Baichuan" -> "baichuan"
      [] s = "MiniMax" -> "minimax"
      [] s = "Gemini" -> "gemini"
      [] s = "Claude" -> "claude"
      [] s = "EN" -> "en"
      [] s = "ZH" -> "zh"
      [] s = "FR" -> "fr"
      [] OTHER -> s

ProviderPreset(base_url, default_model) ==
    [base_url |-> base_url, default_model |-> default_model]

ProviderKeys ==
    {"openai", "deepseek", "qwen", "doubao", "zhipu", "moonshot", "yi",
     "baichuan", "minimax", "gemini", "claude"}

PROVIDERS ==
    [key \in ProviderKeys |->
        CASE key = "openai" ->
                ProviderPreset("https://api.openai.com/v1", "gpt-4o")
          [] key = "deepseek" ->
                ProviderPreset("https://api.deepseek.com/v1", "deepseek-chat")
          [] key = "qwen" ->
                ProviderPreset("https://dashscope.aliyuncs.com/compatible-mode/v1",
                               "qwen-plus")
          [] key = "doubao" ->
                ProviderPreset("https://ark.cn-beijing.volces.com/api/v3",
                               "doubao-pro-32k")
          [] key = "zhipu" ->
                ProviderPreset("https://open.bigmodel.cn/api/paas/v4",
                               "glm-4-plus")
          [] key = "moonshot" ->
                ProviderPreset("https://api.moonshot.cn/v1", "moonshot-v1-8k")
          [] key = "yi" ->
                ProviderPreset("https://api.lingyiwanwu.com/v1", "yi-large")
          [] key = "baichuan" ->
                ProviderPreset("https://api.baichuan-ai.com/v1", "Baichuan4")
          [] key = "minimax" ->
                ProviderPreset("https://api.minimax.chat/v1", "abab6.5s-chat")
          [] key = "gemini" ->
                ProviderPreset("https://generativelanguage.googleapis.com/v1beta/openai",
                               "gemini-2.0-flash")
          [] key = "claude" ->
                ProviderPreset("https://api.anthropic.com/v1",
                               "claude-sonnet-4-20250514")]

\* `x or default` on an optional string
OrElse(x, default) == IF x # <<>> THEN x[1] ELSE default

\* What resolve_provider returns, and the ValueError it raises.
Resolved(base_url, model) ==
    [error |-> "", base_url |-> base_url, model |-> model]

UnknownProvider == [error |-> "Unknown provider", base_url |-> "", model |-> ""]

resolve_provider(provider, base_url, model) ==
    IF base_url # <<>>
    THEN Resolved(base_url[1], OrElse(model, "gpt-4o"))
    ELSE IF provider # <<>>
    THEN LET key == lower(provider[1])
         IN  IF key \notin DOMAIN PROVIDERS
             THEN UnknownProvider
             ELSE Resolved(PROVIDERS[key].base_url,
                           OrElse(model, PROVIDERS[key].default_model))
    ELSE Resolved(PROVIDERS["openai"].base_url,
                  OrElse(model, PROVIDERS["openai"].default_model))

----------------------------------------------------------------------------
(* repo_config.py *)

\* str.upper on the mode names of the inputs.
upper(s) ==
    CASE s = "roast" -> "ROAST"
      [] s = "praise" -> "PRAISE"
      [] s = "security" -> "SECURITY"
      [] s = "loud" -> "LOUD"
      [] OTHER -> s

\* float(s) and int(s) on the strings of the inputs: <<value>>, or <<>> for
\* a ValueError.  Temperatures are in tenths.
float(s) ==
    CASE s = "0.2" -> <<2>>
      [] s = "0" -> <<0>>
      [] OTHER -> <<>>

int(s) ==
    CASE s = "0" -> <<0>>
      [] s = "7" -> <<7>>
      [] s = "2048" -> <<2048>>
      [] s = "30000" -> <<30000>>
      [] OTHER -> <<>>

\* The scalars of the YAML mapping: a number or a string.
YNum(n) == [kind |-> "num", n |-> n, s |-> ""]
YStr(s) == [kind |-> "str", n |-> 0, s |-> s]

\* Python truth of data.get(key): None, 0 and "" are false.
Truthy(v) ==
    /\ v # <<>>
    /\ IF v[1].kind = "num" THEN v[1].n # 0 ELSE v[1].s # ""

\* data.get(a) or data.get(b)
PyOr(a, b) == IF Truthy(a) THEN a ELSE b

\* int(val) and float(val) under `except (ValueError, TypeError): pass`
YInt(v) ==
    IF v = <<>> THEN <<>>
    ELSE IF v[1].kind = "num" THEN <<v[1].n>> ELSE int(v[1].s)

YFloat(v) ==
    IF v = <<>> THEN <<>>
    ELSE IF v[1].kind = "num" THEN <<v[1].n>> ELSE float(v[1].s)

\* [str(x).strip() for x in raw if x]
NonEmpty(raw) == SelectSeq(raw, LAMBDA x : x # "")

YamlKeys ==
    {"mode", "language", "rules", "custom_rules", "exclude", "temperature",
     "max_tokens", "max-tokens", "max_diff_chars", "max-diff-chars"}

\* The mapping yaml.safe_load returns: every key has <<value>>, or <<>> when
\* it is not in the file.  No file, or an empty one, is the empty mapping.
YamlData(mode, language, rules, exclude, temperature, max_tokens, max_tokens_hyphen, max_diff_chars) ==
    [key \in YamlKeys |->
        CASE key = "mode" -> mode
          [] key = "language" -> language
          [] key = "rules" -> rules
          [] key = "exclude" -> exclude
          [] key = "temperature" -> temperature
          [] key = "max_tokens" -> max_tokens
          [] key = "max-tokens" -> max_tokens_hyphen
          [] key = "max_diff_chars" -> max_diff_chars
          [] OTHER -> <<>>]

EmptyData == YamlData(<<>>, <<>>, <<>>, <<>>, <<>>, <<>>, <<>>, <<>>)

\* _parse_config_file from `config = RepoConfig()` on
parse_config_file(data) ==
    [mode |->
        IF data["mode"] # <<>> /\ data["mode"][1].kind = "str"
        THEN <<upper(data["mode"][1].s)>> ELSE <<>>,
     language |->
        IF data["language"] # <<>> /\ data["language"][1].kind = "str"
        THEN <<lower(data["language"][1].s)>> ELSE <<>>,
     custom_rules |->
        LET rules_raw == IF data["rules"] # <<>> THEN data["rules"]
                         ELSE data["custom_rules"]
        IN  IF rules_raw = <<>> THEN <<>> ELSE NonEmpty(rules_raw[1]),
     exclude |->
        IF data["exclude"] = <<>> THEN <<>> ELSE NonEmpty(data["exclude"][1]),
     temperature |->
        IF data["temperature"] # <<>> THEN YFloat(data["temperature"])
        ELSE <<>>,
     max_tokens |->
        IF data["max_tokens"] # <<>> \/ data["max-tokens"] # <<>>
        THEN YInt(PyOr(data["max_tokens"], data["max-tokens"]))
        ELSE <<>>,
     max_diff_chars |->
        IF data["max_diff_chars"] # <<>> \/ data["max-diff-chars"] # <<>>
        THEN YInt(PyOr(data["max_diff_chars"], data["max-diff-chars"]))
        ELSE <<>>]

----------------------------------------------------------------------------
(* config.py *)

Modes == {"ROAST", "PRAISE", "SECURITY"}
Languages == {"zh", "en"}

DefaultMaxDiffChars == 60000

\* _optional_env: None for a missing or empty variable
optional_env(value) == IF value = "" THEN <<>> ELSE <<value>>

\* _parse_list: the parts between commas and newlines that are not empty
parse_list(raw) == NonEmpty(raw)

\* exclude_from_input + repo_cfg.exclude, as the set list(set(...)) is
\* built from.
ExcludeSet(e, data) ==
    Range(parse_list(e.exclude_patterns))
        \cup Range(parse_config_file(data).exclude)

\* The orders list(set(...)) can give the elements of S.
ListsOfSet(S) == {q \in [1..Cardinality(S) -> S] : Range(q) = S}

\* rules_from_input + [r for r in repo_cfg.custom_rules if r not in
\* rules_from_input]
MergeRules(rules_from_input, repo_rules) ==
    rules_from_input
        \o SelectSeq(repo_rules, LAMBDA r : r \notin Range(rules_from_input))

\* How from_env ends: sys.exit(1), an exception it does not catch, or a
\* Config.
ConfigExit(o) == [outcome |-> o, cfg |-> <<>>]

\* Config.from_env on the environment e and the settings-file mapping
\* data; exclude_order is the order list(set(...)) gives the patterns.
Config_from_env(e, data, exclude_order) ==
    LET resolved_provider ==
            resolve_provider(optional_env(e.provider),
                             optional_env(e.base_url), optional_env(e.model))
        pr_number == int(OrElse(optional_env(e.pr_number), "0"))
        repo_cfg == parse_config_file(data)
        final_mode_raw ==
            OrElse(optional_env(e.mode),
                   IF repo_cfg.mode # <<>> /\ repo_cfg.mode[1] # ""
                   THEN repo_cfg.mode[1] ELSE "ROAST")
        final_language_raw ==
            OrElse(optional_env(e.language),
                   IF repo_cfg.language # <<>> /\ repo_cfg.language[1] # ""
                   THEN repo_cfg.language[1] ELSE "en")
        rules_from_input == parse_list(e.custom_rules)
    IN  IF e.github_token = "" THEN ConfigExit("SystemExit1")
        ELSE IF e.api_key = "" /\ e.openai_api_key = ""
        THEN ConfigExit("SystemExit1")
        ELSE IF resolved_provider.error # "" THEN ConfigExit("SystemExit1")
        ELSE IF e.github_repository = "" THEN ConfigExit("SystemExit1")
        ELSE IF pr_number = <<>> THEN ConfigExit("Error1")
        ELSE IF pr_number[1] <= 0 THEN ConfigExit("SystemExit1")
        ELSE IF upper(final_mode_raw) \notin Modes
        THEN ConfigExit("SystemExit1")
        ELSE IF lower(final_language_raw) \notin Languages
        THEN ConfigExit("SystemExit1")
        ELSE IF e.temperature # "" /\ float(e.temperature) = <<>>
        THEN ConfigExit("SystemExit1")
        ELSE IF e.max_tokens # "" /\ int(e.max_tokens) = <<>>
        THEN ConfigExit("SystemExit1")
        ELSE
          [outcome |-> "running",
           cfg |-> <<[
             model |-> resolved_provider.model,
             base_url |-> resolved_provider.base_url,
             provider |-> optional_env(e.provider),
             mode |-> upper(final_mode_raw),
             language |-> lower(final_language_raw),
             pr_number |-> pr_number[1],
             temperature |->
                IF e.temperature # "" THEN float(e.temperature)[1]
                ELSE IF repo_cfg.temperature # <<>>
                THEN repo_cfg.temperature[1]
                ELSE DefaultTemperature,
             max_tokens |->
                IF e.max_tokens # "" THEN int(e.max_tokens)[1]
                ELSE IF repo_cfg.max_tokens # <<>>
                THEN repo_cfg.max_tokens[1]
                ELSE DefaultMaxTokens,
             max_diff_chars |->
                IF e.max_diff_chars # ""
                THEN IF int(e.max_diff_chars) # <<>>
                     THEN int(e.max_diff_chars)[1]
                     ELSE DefaultMaxDiffChars
                ELSE IF repo_cfg.max_diff_chars # <<>>
                THEN repo_cfg.max_diff_chars[1]
                ELSE DefaultMaxDiffChars,
             exclude_patterns |-> exclude_order,
             dry_run |-> lower(e.dry_run) \in {"true", "1", "yes"},
             custom_rules |->
                MergeRules(rules_from_input, repo_cfg.custom_rules)]>>]

\* cfg = Config.from_env() in run(): the Config, or the exit of the process
\* (an uncaught exception ends it in main() with status 1).
from_env ==
    /\ pc = "from_env"
    /\ \E exclude_order \in ListsOfSet(ExcludeSet(env, repo_data)) :
        LET r == Config_from_env(env, repo_data, exclude_order)
        IN  /\ outcome' = r.outcome
            /\ cfg' = IF r.outcome = "running" THEN r.cfg[1] ELSE cfg
            /\ pc' = IF r.outcome = "running" THEN "configured" ELSE "done"
    /\ UNCHANGED <<stripped, env, repo_data, resolved, contextVars, hostFiles, pr_diff,
                   ingestVars, reviewVars, hostVars, inlineVars>>

\* base_url, model = resolve_provider(provider_raw, base_url_raw, model_raw),
\* on its own.
call_resolve_provider ==
    /\ pc = "resolve_provider"
    /\ resolved' = <<resolve_provider(optional_env(env.provider),
                                      optional_env(env.base_url),
                                      optional_env(env.model))>>
    /\ pc' = "resolved"
    /\ UNCHANGED <<stripped, env, repo_data, cfg, outcome, contextVars, hostFiles,
                   pr_diff, ingestVars, reviewVars, hostVars, inlineVars>>

----------------------------------------------------------------------------
(* Inputs of the check of resolve_provider *)

\* The environment of a run whose credentials and pull request are given and
\* whose optional inputs are not.
PlainEnv ==
    [github_token |-> "ghp", api_key |-> "sk", openai_api_key |-> "",
     provider |-> "", base_url |-> "", model |-> "", mode |-> "",
     language |-> "", temperature |-> "", max_tokens |-> "",
     max_diff_chars |-> "", exclude_patterns |-> <<>>, custom_rules |-> <<>>,
     dry_run |-> "false", github_repository |-> "o/r", pr_number |-> "7"]

CapitalisedProviders ==
    {"OpenAI", "DeepSeek", "Qwen", "Doubao", "Zhipu", "Moonshot", "Yi",
     "Baichuan", "MiniMax", "Gemini", "Claude"}

ProviderInputs ==
    {""} \cup ProviderKeys \cup CapitalisedProviders
        \cup {"not-a-real-provider"}

\* No Config was assembled yet: the placeholder of the runs without one.
NoConfig == [dry_run |-> FALSE, max_diff_chars |-> 0, exclude_patterns |-> <<>>]

\* Everything that is not the configuration is idle.
IdlePipeline ==
    /\ stripped = <<>>
    /\ hostFiles = <<>>
    /\ outcome = "running"
    /\ IdleIngest
    /\ IdleReview
    /\ result = <<>>
    /\ prCommits = 1
    /\ prComments = <<>>
    /\ IdleHost
    /\ changed_lines = <<>>
    /\ IdleInline
    /\ NoContext

InitProvider ==
    /\ pc = "resolve_provider"
    /\ cfg = NoConfig
    /\ \E p \in ProviderInputs, u \in {"", "https://my-proxy.com/v1"},
          m \in {"", "my-model"} :
        env = [PlainEnv EXCEPT !.provider = p, !.base_url = u, !.model = m]
    /\ repo_data = EmptyData
    /\ resolved = <<>>
    /\ IdlePipeline

NextProvider == call_resolve_provider

SpecProvider == InitProvider /\ [][NextProvider]_vars

----------------------------------------------------------------------------
(* Inputs of the check of Config.from_env *)

\* Environments with every kind of mistake, no settings file.
ErrorEnvs ==
    [github_token : {"", "ghp"},
     api_key : {"", "sk"},
     openai_api_key : {"", "sk-old"},
     provider : {"", "deepseek", "not-a-real-provider"},
     base_url : {"", "https://my-proxy.com/v1"},
     model : {""},
     mode : {"", "praise", "loud"},
     language : {"", "ZH", "fr"},
     temperature : {"", "0.2", "hot"},
     max_tokens : {"", "2048", "many"},
     max_diff_chars : {"", "30000", "lots"},
     exclude_patterns : {<<>>},
     custom_rules : {<<>>},
     dry_run : {"false"},
     github_repository : {"", "o/r"},
     pr_number : {"", "7"}]

\* Environments with valid credentials: each optional setting given or not.
LayerEnvs ==
    [github_token : {"ghp"},
     api_key : {"sk"},
     openai_api_key : {""},
     provider : {""},
     base_url : {""},
     model : {""},
     mode : {"", "praise"},
     language : {"", "en"},
     temperature : {"", "0.2"},
     max_tokens : {"", "2048"},
     max_diff_chars : {"", "30000", "lots"},
     exclude_patterns : {<<>>, <<"", "*.md">>},
     custom_rules : {<<>>, <<"No magic numbers">>},
     dry_run : {"false"},
     github_repository : {"o/r"},
     pr_number : {"7"}]

\* Settings files: each key in the file or not.
LayerData ==
    {YamlData(mode, language, rules, exclude, temperature, max_tokens,
              max_tokens_hyphen, max_diff_chars) :
        mode \in {<<>>, <<YStr("security")>>},
        language \in {<<>>, <<YStr("zh")>>},
        rules \in {<<>>, <<<<"No magic numbers", "Rule A">>>>},
        exclude \in {<<>>, <<<<"docs/*">>>>},
        temperature \in {<<>>, <<YNum(0)>>},
        max_tokens \in {<<>>, <<YNum(0)>>, <<YNum(1024)>>},
        max_tokens_hyphen \in {<<>>, <<YNum(512)>>},
        max_diff_chars \in {<<>>, <<YNum(500)>>}}

InitConfig ==
    /\ pc = "from_env"
    /\ cfg = NoConfig
    /\ \/ env \in ErrorEnvs /\ repo_data = EmptyData
       \/ env \in LayerEnvs /\ repo_data \in LayerData
    /\ resolved = <<>>
    /\ IdlePipeline

NextConfig == from_env

SpecConfig == InitConfig /\ [][NextConfig]_vars

----------------------------------------------------------------------------
(* Inputs of the ingestion check *)

IngestPaths == SourcePaths
IngestOtherPaths == <<"yarn.lock", "README.md", "assets/logo.png", ".DS_Store",
                      "docs/api.md">>

\* The files the host may return at a position: one the built-in patterns
\* or the glob *.md ignore, a source file without patch text, with a patch
\* that parses (with or without added lines) or with one that does not.
IngestFileAt(pos) ==
    { [filename |-> IngestOtherPaths[pos], patch |-> 1, added |-> {1}, parses |-> TRUE],
      [filename |-> IngestOtherPaths[pos], patch |-> MaxPatchLen, added |-> {},
       parses |-> FALSE],
      [filename |-> IngestPaths[pos], patch |-> 0, added |-> {}, parses |-> TRUE],
      [filename |-> IngestPaths[pos], patch |-> 1, added |-> {}, parses |-> TRUE],
      [filename |-> IngestPaths[pos], patch |-> 1, added |-> {1}, parses |-> FALSE] }
    \cup {[filename |-> IngestPaths[pos], patch |-> n, added |-> {1}, parses |-> TRUE] :
            n \in 1..MaxPatchLen}

RECURSIVE IngestFileListsOfLen(_)
IngestFileListsOfLen(k) ==
    IF k = 0 THEN {<<>>}
    ELSE {Append(s, f) : s \in IngestFileListsOfLen(k - 1), f \in IngestFileAt(k)}

IngestFileLists == UNION {IngestFileListsOfLen(k) : k \in 0..MaxIngestFiles}

InitIngest ==
    /\ IdleConfig
    /\ hostFiles \in IngestFileLists
    /\ cfg \in [dry_run : {FALSE},
                max_diff_chars : (-1)..MaxBudget,
                exclude_patterns : {<<>>, <<"*.md">>}]
    /\ pc = "fetch_pr_diff"
    /\ outcome = "running"
    /\ IdleIngest
    /\ IdleReview
    /\ result = <<>>
    /\ prCommits = 1
    /\ prComments = <<>>
    /\ IdleHost
    /\ changed_lines = <<>>
    /\ IdleInline
    /\ NoContext

NextIngest == fetch_pr_diff_file \/ fetch_pr_diff_return

SpecIngest == InitIngest /\ [][NextIngest]_vars

----------------------------------------------------------------------------
(* Inputs of the check of post_inline_comments *)

MaxReviews == 2
MaxExtra == 1

\* The added lines of a.py with the iteration order of their set; b.py is not
\* in the diff.
LineOrders == {<<>>, <<2>>, <<6>>, <<2, 6>>, <<6, 2>>}

InlineReviewChoices ==
    {InlineReview("a.py", t, "ok") : t \in {2, 3, 4, 11, 12}}
    \cup {InlineReview("b.py", 2, "no")}

RECURSIVE Repeat(_, _)
Repeat(x, n) == IF n = 0 THEN <<>> ELSE <<x>> \o Repeat(x, n - 1)

\* Short lists of any reviews, and lists longer than the fallback cap.
InlineReviewLists ==
    SeqsUpTo(InlineReviewChoices, MaxReviews)
    \cup {Repeat(InlineReview("a.py", 3, "ok"), FallbackCap + n) : n \in 0..MaxExtra}

InitInline ==
    /\ IdleConfig
    /\ hostFiles = <<>>
    /\ cfg = [dry_run |-> FALSE, max_diff_chars |-> 0, exclude_patterns |-> <<>>]
    /\ pc = "post_inline_comments"
    /\ outcome = "running"
    /\ IdleIngest
    /\ IdleReview
    /\ \E reviews \in InlineReviewLists :
        result = <<[summary |-> "Fine", score |-> 70, reviews |-> reviews,
                    file_summaries |-> <<>>]>>
    /\ prCommits \in {0, 1}
    /\ prComments = <<>>
    /\ IdleHost
    /\ \E order \in LineOrders : changed_lines = [p \in {"a.py"} |-> order]
    /\ IdleInline
    /\ NoContext

NextInline ==
    \/ post_inline_comments
    \/ create_review
    \/ fallback_comment
    \/ fallback_end
    \/ retry_github_call

SpecInline == InitInline /\ [][NextInline]_vars

----------------------------------------------------------------------------
(* Inputs of the check of extract_surrounding_context *)

MaxSourceLines == 4
MaxChanged == 2

\* "def foo():", "    a = 1", "" and "x = 1"
DefLine == SourceLine(10, 0, FALSE, TRUE)
BodyLine == SourceLine(9, 4, FALSE, FALSE)
EmptyLine == SourceLine(0, 0, TRUE, FALSE)
TopLine == SourceLine(5, 0, FALSE, FALSE)

Sources == SeqsUpTo({DefLine, BodyLine, EmptyLine, TopLine}, MaxSourceLines)

\* Ceilings below one line, around one and two lines, and the default.
ContextBudgets == {0, 16, 30, MAX_CONTEXT_CHARS}

\* Changed-line sets of at most MaxChanged lines, one of them possibly past
\* the end of the file.
ChangedLineSets ==
    {c \in SUBSET (1..(MaxSourceLines + 1)) : Cardinality(c) <= MaxChanged}

InitContext ==
    /\ IdleConfig
    /\ hostFiles = <<>>
    /\ cfg = [dry_run |-> FALSE, max_diff_chars |-> 0, exclude_patterns |-> <<>>]
    /\ pc = "extract_surrounding_context"
    /\ outcome = "running"
    /\ IdleIngest
    /\ IdleReview
    /\ result = <<>>
    /\ prCommits = 1
    /\ prComments = <<>>
    /\ IdleHost
    /\ changed_lines = <<>>
    /\ IdleInline
    /\ full_source \in Sources
    /\ context_changed_lines \in ChangedLineSets
    /\ max_chars \in ContextBudgets
    /\ IdleContext

NextContext ==
    \/ extract_surrounding_context
    \/ context_line
    \/ context_range_end
    \/ context_return

SpecContext == InitContext /\ [][NextContext]_vars

(* _strip_code_fences on every short text *)

MaxTextLen == 6

\* The pieces of a response text: a ``` marker, a language tag, a newline,
\* other whitespace, anything else.
TextTokens == {Tok("fence"), Tok("tag"), Tok("nl"), Tok("ws"), Tok("text")}

InitFence ==
    /\ IdleConfig
    /\ hostFiles = <<>>
    /\ cfg = NoConfig
    /\ pc = "strip_code_fences"
    /\ outcome = "running"
    /\ IdleIngest
    /\ strategy = {}
    /\ i = 0
    /\ llmCalls = <<>>
    /\ llmDone = 0
    /\ llmError = ""
    /\ \E text \in SeqsUpTo(TextTokens, MaxTextLen) \ {<<>>} :
        llmResp = <<Response("ok", <<text>>, "text")>>
    /\ llmResults = <<>>
    /\ all_reviews = <<>>
    /\ file_review_summaries = <<>>
    /\ printed = <<>>
    /\ result = <<>>
    /\ prCommits = 1
    /\ prComments = <<>>
    /\ IdleHost
    /\ changed_lines = <<>>
    /\ IdleInline
    /\ NoContext

NextFence == call_strip_code_fences

SpecFence == InitFence /\ [][NextFence]_vars

(* _find_enclosing_block on short sources of every shape and on long blocks *)

MaxOverflow == 2

\* A nested block opener and a line inside it.
InnerDefLine == SourceLine(12, 4, FALSE, TRUE)
DeepLine == SourceLine(13, 8, FALSE, FALSE)

ShortSources ==
    SeqsUpTo({DefLine, BodyLine, EmptyLine, TopLine, InnerDefLine, DeepLine},
             MaxSourceLines) \ {<<>>}

\* A definition with n body lines, alone or followed by the next definition.
LongSources ==
    {<<DefLine>> \o [k \in 1..n |-> BodyLine] \o tail :
        n \in (MaxBlockLines - 2)..(MaxBlockLines + MaxOverflow),
        tail \in {<<>>, <<DefLine, BodyLine>>}}

InitBlock ==
    /\ IdleConfig
    /\ hostFiles = <<>>
    /\ cfg = NoConfig
    /\ pc = "find_enclosing_block"
    /\ outcome = "running"
    /\ IdleIngest
    /\ IdleReview
    /\ result = <<>>
    /\ prCommits = 1
    /\ prComments = <<>>
    /\ IdleHost
    /\ changed_lines = <<>>
    /\ IdleInline
    /\ full_source \in ShortSources \cup LongSources
    /\ \E line_no \in 1..Len(full_source) : context_changed_lines = {line_no}
    /\ max_chars = MAX_CONTEXT_CHARS
    /\ IdleContext

NextBlock == call_find_enclosing_block

SpecBlock == InitBlock /\ [][NextBlock]_vars

(* _merge_ranges on every list of ranges *)

MaxRanges == 3
MaxRangeLine == 4

\* (start, end) pairs as _find_enclosing_block returns them: 0-based,
\* start <= end.
LineRanges == {r \in (0..MaxRangeLine) \X (0..MaxRangeLine) : r[1] <= r[2]}

InitMerge ==
    /\ IdleConfig
    /\ hostFiles = <<>>
    /\ cfg = [dry_run |-> FALSE, max_diff_chars |-> 0, exclude_patterns |-> <<>>]
    /\ pc = "merge_ranges"
    /\ outcome = "running"
    /\ IdleIngest
    /\ IdleReview
    /\ result = <<>>
    /\ prCommits = 1
    /\ prComments = <<>>
    /\ IdleHost
    /\ changed_lines = <<>>
    /\ IdleInline
    /\ full_source = <<>>
    /\ context_changed_lines = {}
    /\ max_chars = MAX_CONTEXT_CHARS
    /\ context_ranges \in SeqsUpTo(LineRanges, MaxRanges)
    /\ merged = <<>>
    /\ rangeIdx = 0
    /\ lineIdx = 0
    /\ parts = <<>>
    /\ context_total_chars = 0
    /\ context_code = <<>>

NextMerge == call_merge_ranges

SpecMerge == InitMerge /\ [][NextMerge]_vars

----------------------------------------------------------------------------
(* Claims about fetch_pr_diff (SpecIngest) *)

IncludedPaths == {pr_diff[1].files[k].path : k \in 1..Len(pr_diff[1].files)}

\* The host files that are neither ignored nor without patch text.
Eligible(k) ==
    /\ ~should_ignore(hostFiles[k].filename, cfg.exclude_patterns)
    /\ hostFiles[k].patch > 0

HostPatchSum ==
    SumSeq([k \in 1..Len(hostFiles) |->
        IF hostFiles[k].filename \in IncludedPaths THEN hostFiles[k].patch ELSE 0])

PRDiffAccounting ==
    /\ PRDiff_total_chars(pr_diff[1]) = HostPatchSum
    /\ PRDiff_total_chars(pr_diff[1]) = total_chars
    /\ pr_diff[1].truncated <=>
        \E k \in 1..Len(hostFiles) :
            Eligible(k) /\ hostFiles[k].filename \notin IncludedPaths

\* C6 as stated: total_chars is the sum of the included files' patch lengths
\* and never exceeds max_diff_chars; truncated iff an eligible file was
\* rejected for the budget.
C6_Original ==
    pr_diff # <<>> =>
        /\ PRDiffAccounting
        /\ PRDiff_total_chars(pr_diff[1]) <= cfg.max_diff_chars

\* C6 (amended): for every PRDiff produced by fetch_pr_diff, total_chars is
\* the sum of the included files' patch lengths and never exceeds
\* max(max_diff_chars, 0) (a negative budget yields an empty PRDiff, whose
\* total 0 is above the budget); truncated is true iff at least one file that
\* was not ignored and had a non-empty patch was rejected for the budget.
C6_TotalCharsAndTruncated ==
    pr_diff # <<>> =>
        /\ PRDiffAccounting
        /\ PRDiff_total_chars(pr_diff[1]) <= Max(cfg.max_diff_chars, 0)

\* A PRDiff with two files kept and a third rejected for the budget.
C6_Witness ==
    /\ pr_diff # <<>>
    /\ Len(pr_diff[1].files) = 2
    /\ pr_diff[1].truncated
    /\ PRDiff_total_chars(pr_diff[1]) = cfg.max_diff_chars

\* C7: budget enforcement is monotone: once a file has been rejected for the
\* budget (truncated is true) no later file of the host's order is added to
\* the PRDiff, and truncated never returns to false.
C7_NoFileAfterRejection ==
    [][truncated => (files' = files /\ truncated')]_vars

----------------------------------------------------------------------------
(* Claims about the pipeline run (Spec) *)

\* The added lines of a path in the ingested diff ({} for an unknown path).
AddedLinesOf(path) ==
    UNION {pr_diff[1].files[k].added_lines :
            k \in {j \in 1..Len(pr_diff[1].files) : pr_diff[1].files[j].path = path}}

\* The inline comments the host holds, batched or individual.
InlineCommentAt(path, line) ==
    \/ \E b \in 1..Len(prReviews) : \E k \in 1..Len(prReviews[b]) :
            prReviews[b][k].path = path /\ prReviews[b][k].line = line
    \/ \E k \in 1..Len(prComments) :
            ~prComments[k].marker /\ prComments[k].path = path
                /\ prComments[k].line = line

SummaryCommentPosted ==
    \E k \in 1..Len(prComments) :
        /\ prComments[k].marker
        /\ prComments[k].text = result[1].summary
        /\ prComments[k].score = result[1].score

\* C1: in a run that is not a dry run and whose LLM result validates, the
\* summary comment (summary text and "<score>/100") is posted and one inline
\* comment is posted for every inline review whose (file_path, line_number)
\* is an added line of the diff, at that file and line.
C1_SummaryAndInlinePosted ==
    outcome = "Posted" =>
        /\ SummaryCommentPosted
        /\ \A k \in 1..Len(result[1].reviews) :
            LET r == result[1].reviews[k]
            IN  r.line_number \in AddedLinesOf(r.file_path)
                    => InlineCommentAt(r.file_path, r.line_number)

\* C2: whenever an LLM call of a run fails (transport failure, empty,
\* unparseable or schema-invalid response) the run aborts with a failure
\* status, no host posting call is attempted in that run, on a per-file call
\* as on the merge call, and no later LLM call is issued.
C2_LLMFailureAborts ==
    (llmResp # <<>> /\ llmResp[1].class # "valid") =>
        /\ pc = "done"
        /\ outcome = "SystemExit1"
        /\ ExitStatus(outcome) = 1
        /\ hostCalls = NoHostCalls
        /\ prReviews = <<>>
        /\ llmDone = Len(llmCalls)
        /\ result = <<>>

\* A multi-file run aborted by a schema-invalid answer to the merge call.
C2_Witness ==
    /\ outcome = "SystemExit1"
    /\ llmResp[1].class = "schema"
    /\ llmCalls[Len(llmCalls)].kind = "merge"
    /\ llmDone = Len(pr_diff[1].files) + 1

\* The document of a response text that holds one.
DocOf(resp) ==
    LET text == resp.content[1]
    IN  text[CHOOSE k \in 1..Len(text) : text[k].t = "doc"].v[1]

HasDoc(resp) ==
    /\ resp.transport = "ok"
    /\ resp.content # <<>>
    /\ \E k \in 1..Len(resp.content[1]) : resp.content[1][k].t = "doc"

\* C3: the strategy depends only on the number of files of the PRDiff: with
\* 1 to 3 files the run issues exactly one LLM call (whole-PR prompt) and
\* uses its ReviewResult unchanged; with 4 or more files it uses the
\* multi-file strategy; the two are never both used in one run.
C3_StrategyByFileCount ==
    (pr_diff # <<>> /\ pc # "ingested") =>
        LET n == Len(pr_diff[1].files)
        IN  /\ Cardinality(strategy) <= 1
            /\ n = 0 => (strategy = {} /\ llmCalls = <<>>)
            /\ (n >= 1 /\ n <= 3) =>
                /\ strategy = {"single"}
                /\ Len(llmCalls) = 1
                /\ llmCalls[1].kind = "whole_pr"
                /\ result # <<>> =>
                    /\ result[1].summary = DocOf(llmResp[1]).summary[1]
                    /\ result[1].score = DocOf(llmResp[1]).score[1]
                    /\ result[1].reviews = DocOf(llmResp[1]).reviews
                    /\ result[1].file_summaries = <<>>
            /\ n >= 4 =>
                /\ strategy = {"multi"}
                /\ \A k \in 1..Len(llmCalls) : llmCalls[k].kind # "whole_pr"

\* A posted single-pass review of a PR of exactly 3 files.
C3_Witness ==
    /\ outcome = "Posted"
    /\ Len(pr_diff[1].files) = 3
    /\ strategy = {"single"}
    /\ result[1].reviews # <<>>

\* The position of a path in the host's file list.
HostPos(path) == CHOOSE k \in 1..Len(hostFiles) : hostFiles[k].filename = path

IsPosting ==
    \/ pc \in {"post_summary_comment", "retry_github_call"}
    \/ hostCalls # NoHostCalls
    \/ outcome \in {"Posted", "Error1"}

\* C4: in multi-file mode with N files, when all calls succeed, exactly N
\* per-file calls followed by exactly 1 merge call are issued: per-file calls
\* in the order the host returned the files, each completed before the next
\* begins, the merge call only after all N completed, and posting only after
\* the merge result has been validated.
C4_MultiFileCallOrder ==
    "multi" \in strategy =>
        LET n == Len(pr_diff[1].files)
        IN  /\ Len(llmCalls) <= n + 1
            /\ llmDone <= Len(llmCalls) /\ Len(llmCalls) <= llmDone + 1
            /\ \A k \in 1..Len(llmCalls) :
                IF k <= n
                THEN /\ llmCalls[k].kind = "file"
                     /\ llmCalls[k].path = pr_diff[1].files[k].path
                     /\ \A j \in 1..(k - 1) :
                            HostPos(llmCalls[j].path) < HostPos(llmCalls[k].path)
                ELSE llmCalls[k].kind = "merge" /\ llmDone >= n
            /\ (result # <<>> \/ IsPosting \/ outcome = "DryRun") =>
                /\ Len(llmCalls) = n + 1
                /\ llmDone = n + 1
                /\ llmResp[1].class = "valid"
                /\ result # <<>>
                /\ Len(result[1].file_summaries) = n

\* A posted multi-file review of 5 files: 5 per-file calls and the merge.
C4_Witness ==
    /\ outcome = "Posted"
    /\ strategy = {"multi"}
    /\ Len(pr_diff[1].files) = 5
    /\ Len(llmCalls) = 6

InlineReviewInBounds(r) == r.line_number >= 1 /\ r.comment # ""

\* What the claim calls out of bounds, on the document as the endpoint
\* sent it.
DocOutOfBounds(d) ==
    /\ d.kind = "object"
    /\ \/ d.score # <<>> /\ (d.score[1] < 0 \/ d.score[1] > 100)
       \/ d.summary = <<"">>
       \/ \E k \in 1..Len(d.reviews) : ~InlineReviewInBounds(d.reviews[k])

\* C5: schema validation of an LLM result fails (nothing is clamped or
\* defaulted) whenever score is outside [0,100], summary is empty, a review's
\* comment is empty or a review's line_number is below 1; every ReviewResult
\* that reaches the strategy or posting stage has 0 <= score <= 100, a
\* non-empty summary, and line_number >= 1 with a non-empty comment for each
\* review.
C5_SchemaBoundsEnforced ==
    /\ (llmResp # <<>> /\ HasDoc(llmResp[1]) /\ DocOutOfBounds(DocOf(llmResp[1]))) =>
        /\ outcome = "SystemExit1"
        /\ llmError = "schema"
        /\ result = <<>>
    /\ \A k \in 1..Len(all_reviews) : InlineReviewInBounds(all_reviews[k])
    /\ \A k \in 1..Len(file_review_summaries) :
        /\ file_review_summaries[k].score >= 0
        /\ file_review_summaries[k].score <= 100
        /\ file_review_summaries[k].summary # ""
    /\ result # <<>> =>
        /\ result[1].score >= 0 /\ result[1].score <= 100
        /\ result[1].summary # ""
        /\ \A k \in 1..Len(result[1].reviews) :
            InlineReviewInBounds(result[1].reviews[k])

\* A run aborted by the answer score = 150, and before it a per-file result
\* with the boundary score 100 accepted.
C5_Witness ==
    /\ outcome = "SystemExit1"
    /\ llmError = "schema"
    /\ DocOf(llmResp[1]).score = <<150>>
    /\ file_review_summaries # <<>>
    /\ file_review_summaries[1].score = 100

----------------------------------------------------------------------------
(* Claims about post_inline_comments (SpecInline) *)

\* The added lines of a path as changed_lines gives them.
ValidLines(path) ==
    IF path \in DOMAIN changed_lines THEN Range(changed_lines[path]) ELSE {}

\* A review survives when an added line of its file is within 5 lines.
Survives(r) ==
    \E l \in ValidLines(r.file_path) : Abs(l - r.line_number) <= 5

\* The index in result.reviews of the j-th surviving review.
NthSurvivor(j) ==
    LET reviews == result[1].reviews
    IN  CHOOSE k \in 1..Len(reviews) :
            /\ Survives(reviews[k])
            /\ Cardinality({m \in 1..k : Survives(reviews[m])}) = j

PayloadBuilt ==
    /\ pc # "post_inline_comments"
    /\ result[1].reviews # <<>>
    /\ prCommits > 0

\* C8: line reconciliation: a review whose line_number is an added line of
\* its file is kept unchanged; otherwise, if an added line of the same file
\* is at distance at most 5, it is retargeted to an added line at minimum
\* distance; otherwise (farther than 5, no added lines, unknown file) that
\* comment alone is dropped and the remaining ones are processed, without
\* failure.
C8_LineReconciliation ==
    PayloadBuilt =>
        LET reviews == result[1].reviews
            survivors == {k \in 1..Len(reviews) : Survives(reviews[k])}
        IN  /\ Len(comments_payload) = Cardinality(survivors)
            /\ outcome # "Raised"
            /\ \A j \in 1..Len(comments_payload) :
                LET r == reviews[NthSurvivor(j)]
                    c == comments_payload[j]
                IN  /\ c.path = r.file_path
                    /\ c.body = r.comment
                    /\ c.line \in ValidLines(r.file_path)
                    /\ IF r.line_number \in ValidLines(r.file_path)
                       THEN c.line = r.line_number
                       ELSE /\ Abs(c.line - r.line_number) <= 5
                            /\ \A l \in ValidLines(r.file_path) :
                                Abs(c.line - r.line_number) <= Abs(l - r.line_number)

\* Two reviews, the first dropped (6 lines away), the second
\* retargeted from line 3 to the nearer added line 2 although the set's
\* iteration order meets line 6 first.
C8_Witness ==
    /\ PayloadBuilt
    /\ changed_lines["a.py"] = <<6, 2>>
    /\ Len(result[1].reviews) = 2
    /\ result[1].reviews[1].line_number = 12
    /\ result[1].reviews[2].line_number = 3
    /\ Len(comments_payload) = 1
    /\ comments_payload[1].line = 2

\* An individual comment that names the file and line of a payload entry.
NamesEntry(comment, entry) ==
    /\ ~comment.marker
    /\ comment.path = entry.path
    /\ comment.line = entry.line
    /\ comment.text = entry.body

RECURSIVE PostedFrom(_, _)
PostedFrom(comments, entries) ==
    IF comments = <<>> THEN TRUE
    ELSE IF entries = <<>> THEN FALSE
    ELSE IF NamesEntry(Head(comments), Head(entries))
         THEN PostedFrom(Tail(comments), Tail(entries))
         ELSE PostedFrom(comments, Tail(entries))

\* The individual comments the host holds are `posted` many, one per entry
\* of a subsequence of the payload, in the payload's order.
IndividualCommentsFromPayload ==
    /\ Len(prComments) = posted
    /\ PostedFrom(prComments, comments_payload)

\* C9: when create_review is rejected with 403 or 422, post_inline_comments
\* falls back to posting the surviving comments one by one as individual
\* comments naming file and line, stops as soon as 10 have been posted, and
\* never calls the batched review API a second time.
C9_FallbackOn403Or422 ==
    reviewStatus \in {403, 422} =>
        /\ hostCalls.create_review = 1
        /\ prReviews = <<>>
        /\ outcome # "Raised"
        /\ posted <= 10
        /\ IndividualCommentsFromPayload
        /\ posted = 10 => pc \in {"fallback_end", "done"}
        /\ pc = "done" =>
            /\ outcome = "Returned"
            /\ \/ posted = 10
               \/ /\ payloadIdx = Len(comments_payload) + 1
                  /\ hostCalls.issue_comment_attempted

\* 403 on the batch of 11 comments: 10 individual comments posted, the 11th
\* skipped.
C9_Witness ==
    /\ reviewStatus = 403
    /\ pc = "done"
    /\ Len(comments_payload) = 11
    /\ posted = 10
    /\ Len(prComments) = 10
    /\ hostCalls.create_review = 1

OtherReviewError ==
    /\ reviewStatus \in ErrorStatuses
    /\ reviewStatus \notin {403, 422}

----------------------------------------------------------------------------
(* Claims about _retry_github_call and post_summary_comment (Spec) *)

\* C11: in _retry_github_call a failed call is retried, after a backoff
\* delay, only when the status is 429 or >= 500; for any other status (403 in
\* particular) the error is re-raised after that attempt, with no delay and
\* no further invocation of the call.
C11_RetryOnly429Or5xx ==
    [][(pc = "retry_github_call" /\ retry'.last # 200) =>
        IF pc' = "retry_github_call"
        THEN \* func() will be invoked again
             /\ retry'.last = 429 \/ retry'.last >= 500
             /\ retry'.attempt = retry.attempt + 1
             /\ retry'.sleeps = Append(retry.sleeps, Pow2(retry.attempt))
        ELSE \* the error leaves the wrapper
             /\ retry'.last \in {403, 404, 422} \/ retry.attempt = 3
             /\ retry'.caller = "none"
             /\ retry'.attempt = retry.attempt
             /\ retry'.sleeps = retry.sleeps
             /\ prComments' = prComments
             /\ retry.caller = "summary" => outcome' = "Error1"
      ]_vars

\* A 429 retried after 1 second, then a 403 raised at once.
C11_Witness ==
    /\ pc = "done"
    /\ outcome = "Error1"
    /\ retry.last = 403
    /\ retry.attempt = 1
    /\ retry.sleeps = <<1>>

\* C12: every host write made while posting (creating an issue comment,
\* editing the existing summary comment, creating the batched review) goes
\* through _retry_github_call, so a 429 or 5xx answer to any of them is
\* retried with exponential backoff: a finished run whose last answer to such
\* a write was a 429 or 5xx has invoked that write more than once.
C12_AllWritesThroughWrapper ==
    pc = "done" =>
        /\ (hostCalls.edit_status = 429 \/ hostCalls.edit_status >= 500)
            => hostCalls.edit > 1
        /\ (reviewStatus = 429 \/ reviewStatus >= 500)
            => hostCalls.create_review > 1
        /\ (retry.last = 429 \/ retry.last >= 500)
            => retry.sleeps = <<1, 2, 4>>

MarkerComments == {k \in 1..Len(prComments) : prComments[k].marker}

\* C13: every summary body holds the marker, and after post_summary_comment
\* (also when listing or editing the comments fails with a host error) the
\* pull request holds at most one comment with the marker: an existing one is
\* edited in place and no new summary comment is created.
C13_AtMostOneSummaryComment ==
    /\ result # <<>> => build_summary_body(result[1]).marker
    /\ Cardinality(MarkerComments) <= 1
    /\ (outcome = "Posted" /\ hostCalls.edit > 0) =>
            ~hostCalls.issue_comment_attempted

----------------------------------------------------------------------------
(* Claims about run(): dry run, empty diff, LLM parameters (Spec) *)

\* C14: with the dry-run flag set no host write (create comment, edit
\* comment, create review) is performed at any point of the run, for either
\* strategy; a run that obtained its result ends in DryRun after logging the
\* summary, the score and every inline review.
C14_DryRunNeverWrites ==
    cfg.dry_run =>
        /\ hostCalls = NoHostCalls
        /\ prReviews = <<>>
        /\ prComments \in {<<>>, <<HumanComment, OldSummary>>}
        /\ pc \notin {"post_summary_comment", "retry_github_call"}
        /\ outcome \in {"running", "Empty", "SystemExit1", "DryRun"}
        /\ (pc = "done" /\ result # <<>>) =>
            /\ outcome = "DryRun"
            /\ Len(printed) = 1
            /\ printed[1].summary = result[1].summary
            /\ printed[1].score = result[1].score
            /\ Len(printed[1].lines) = Len(result[1].reviews)
            /\ \A k \in 1..Len(result[1].reviews) :
                LET r == result[1].reviews[k]
                IN  printed[1].lines[k] = <<r.file_path, r.line_number, r.comment>>
        /\ outcome = "DryRun" => (pc = "done" /\ result # <<>>)

\* A dry run of the multi-file strategy that logged two inline reviews, on a
\* pull request that holds an earlier summary comment.
C14_Witness ==
    /\ cfg.dry_run
    /\ outcome = "DryRun"
    /\ strategy = {"multi"}
    /\ Len(printed[1].lines) = 2
    /\ prComments = <<HumanComment, OldSummary>>

\* C15: when ingestion yields zero files (empty pull request, every file
\* ignored or over budget) the run ends in Empty without error: no LLM call,
\* no posting call, a normal return.
C15_EmptyDiffExitsEarly ==
    (pr_diff # <<>> /\ pr_diff[1].files = <<>> /\ pc # "ingested") =>
        /\ pc = "done"
        /\ outcome = "Empty"
        /\ ExitStatus(outcome) = 0
        /\ llmCalls = <<>>
        /\ llmDone = 0
        /\ result = <<>>
        /\ printed = <<>>
        /\ hostCalls = NoHostCalls
        /\ prReviews = <<>>
        /\ prComments \in {<<>>, <<HumanComment, OldSummary>>}

\* Two source files, both over a budget of 0, with posting enabled.
C15_Witness ==
    /\ outcome = "Empty"
    /\ Len(hostFiles) = 2
    /\ hostFiles[1].filename = "a.py"
    /\ hostFiles[2].filename = "b.py"
    /\ pr_diff[1].truncated
    /\ ~cfg.dry_run

\* C16: every LLM call of a run, in both strategies and including the merge
\* call, is submitted with the configured temperature and the configured max
\* output tokens.
C16_ConfiguredLLMParameters ==
    \A k \in 1..Len(llmCalls) :
        /\ llmCalls[k].temperature = cfg.temperature
        /\ llmCalls[k].max_tokens = cfg.max_tokens

----------------------------------------------------------------------------
(* Claims about _multi_file_review's result (Spec) *)

RECURSIVE ConcatReviews(_)
ConcatReviews(results) ==
    IF results = <<>> THEN <<>>
    ELSE Head(results).reviews \o ConcatReviews(Tail(results))

\* C17: the FullReviewResult of a multi-file run has reviews equal to the
\* concatenation of the per-file results' inline reviews in file-processing
\* order (nothing of the merge call's result is added), score and summary
\* equal to those of the merge call's result, and one FileReviewSummary per
\* file, in order, with that file's path, score, summary and number of
\* inline reviews.
C17_FullReviewResultAssembly ==
    (strategy = {"multi"} /\ result # <<>>) =>
        LET n == Len(pr_diff[1].files)
            per_file == SubSeq(llmResults, 1, n)
            merge_result == llmResults[n + 1]
            full == result[1]
        IN  /\ Len(llmResults) = n + 1
            /\ full.reviews = ConcatReviews(per_file)
            /\ full.score = merge_result.score
            /\ full.summary = merge_result.summary
            /\ Len(full.file_summaries) = n
            /\ \A k \in 1..n :
                /\ full.file_summaries[k].file_path = pr_diff[1].files[k].path
                /\ full.file_summaries[k].score = per_file[k].score
                /\ full.file_summaries[k].summary = per_file[k].summary
                /\ full.file_summaries[k].comment_count = Len(per_file[k].reviews)

\* Four files, the second and the fourth with one inline review each; the
\* merge call answered score 0 with a review of its own, which is not in the
\* result.
C17_Witness ==
    /\ strategy = {"multi"}
    /\ result # <<>>
    /\ Len(pr_diff[1].files) = 4
    /\ llmResults[5].score = 0
    /\ llmResults[5].reviews # <<>>
    /\ result[1].score = 0
    /\ result[1].reviews = <<InlineReview(pr_diff[1].files[2].path, 2, "ok"),
                             InlineReview(pr_diff[1].files[4].path, 2, "ok")>>
    /\ result[1].file_summaries[1].score = 100

----------------------------------------------------------------------------
(* Claims about the files fetch_pr_diff keeps (SpecIngest) *)

\* The path matches a built-in ignore regex or one of the exclude globs.
MatchesIgnoreRule(path, patterns) ==
    \/ path \in DefaultIgnoredPaths
    \/ \E k \in 1..Len(patterns) : fnmatch(path, patterns[k])

\* C18: no file whose path matches a built-in ignore regex or a
\* caller-supplied exclude glob ever appears in PRDiff.files, whatever its
\* patch and its position; the decision depends on the path and the pattern
\* set only, not on the files processed before (every prefix of every host
\* list gives the same decision for the same path and patterns).
C18_IgnoredNeverIncluded ==
    /\ \A k \in 1..Len(files) :
        ~MatchesIgnoreRule(files[k].path, cfg.exclude_patterns)
    /\ \A k \in 1..Len(skipped_files) :
        ~MatchesIgnoreRule(skipped_files[k], cfg.exclude_patterns)
    /\ pr_diff # <<>> =>
        \A k \in 1..Len(hostFiles) :
            MatchesIgnoreRule(hostFiles[k].filename, cfg.exclude_patterns)
                => hostFiles[k].filename \notin IncludedPaths

\* a.py kept, README.md excluded by the glob *.md and assets/logo.png by the
\* built-in patterns, with budget to spare.
C18_Witness ==
    /\ pr_diff # <<>>
    /\ cfg.exclude_patterns = <<"*.md">>
    /\ Len(hostFiles) = 3
    /\ hostFiles[2].filename = "README.md"
    /\ hostFiles[3].filename = "assets/logo.png"
    /\ hostFiles[3].patch = MaxPatchLen
    /\ IncludedPaths = {"a.py"}
    /\ ~pr_diff[1].truncated

\* The host positions kept from position k on, with `total` characters
\* already kept, when every patch is taken by its path and length alone.
RECURSIVE KeptFrom(_, _)
KeptFrom(k, total) ==
    IF k > Len(hostFiles) THEN <<>>
    ELSE LET f == hostFiles[k]
         IN  IF MatchesIgnoreRule(f.filename, cfg.exclude_patterns) \/ f.patch = 0
             THEN KeptFrom(k + 1, total)
             ELSE IF total + f.patch > cfg.max_diff_chars
             THEN KeptFrom(k + 1, total)
             ELSE <<k>> \o KeptFrom(k + 1, total + f.patch)

\* C19: a per-file diff parse failure never fails ingestion: the file, if
\* within budget, is included with its raw patch and an empty added-line set,
\* its patch length counts against the budget, and all other files are
\* processed as if the failure had not occurred (which files are kept depends
\* on paths and patch lengths only).
C19_ParseFailureIsLocal ==
    /\ outcome = "running"
    /\ pr_diff # <<>> =>
        LET kept == KeptFrom(1, 0)
            d == pr_diff[1]
        IN  /\ Len(d.files) = Len(kept)
            /\ \A j \in 1..Len(kept) :
                LET f == hostFiles[kept[j]]
                IN  /\ d.files[j].path = f.filename
                    /\ d.files[j].patch = f.patch
                    /\ d.files[j].added_lines = IF f.parses THEN f.added ELSE {}
            /\ PRDiff_total_chars(d) =
                SumSeq([j \in 1..Len(kept) |-> hostFiles[kept[j]].patch])

\* Budget 2: a.py does not parse and is kept with no added lines, its one
\* character leaves room for b.py (1) and none for c.py (1).
C19_Witness ==
    /\ pr_diff # <<>>
    /\ cfg.max_diff_chars = 2
    /\ Len(hostFiles) = 3
    /\ ~hostFiles[1].parses
    /\ hostFiles[1].added # {}
    /\ IncludedPaths = {"a.py", "b.py"}
    /\ pr_diff[1].files[1].added_lines = {}
    /\ pr_diff[1].files[2].added_lines = {1}
    /\ pr_diff[1].truncated

----------------------------------------------------------------------------
(* Claims about extract_surrounding_context (SpecContext) *)

\* C20: the text returned by extract_surrounding_context never exceeds
\* max_chars characters, for every source, changed-line set and max_chars;
\* when the ceiling is hit the output ends with the truncation marker and is
\* still within max_chars.
C20_ContextWithinMaxChars ==
    (context_code # <<>> /\ ~context_code[1].none) =>
        /\ context_code[1].len <= max_chars
        /\ context_code[1].truncated <=>
            \E k \in 1..Len(parts) : parts[k].kind = "marker"

----------------------------------------------------------------------------
(* Claims about _merge_ranges (SpecMerge) *)

\* The input ranges that lie inside the merged range m.
InputsInside(m) ==
    {k \in 1..Len(context_ranges) :
        m[1] <= context_ranges[k][1] /\ context_ranges[k][2] <= m[2]}

\* The input list reordered by the permutation p of its indices.
Permuted(p) == [k \in 1..Len(context_ranges) |-> context_ranges[p[k]]]

\* C21: _merge_ranges returns ranges sorted by start; input ranges are
\* collapsed into one exactly when the later one starts at most 2 lines
\* after the end reached so far (start <= previous end + 2) and stay separate
\* otherwise: consecutive output ranges are more than 2 lines apart, every
\* input range lies inside one output range, an output range spans exactly
\* the input ranges inside it, and each of these but the first starts at
\* most 2 lines after the end of one that starts before it.  The result is
\* the same for every permutation of the input, and merging the result again
\* changes nothing.
C21_MergeRangesLaw ==
    pc = "merged" =>
        /\ \A k \in 1..(Len(merged) - 1) :
            /\ merged[k][1] < merged[k + 1][1]
            /\ merged[k + 1][1] > merged[k][2] + 2
        /\ \A k \in 1..Len(context_ranges) :
            \E j \in 1..Len(merged) : k \in InputsInside(merged[j])
        /\ \A j \in 1..Len(merged) :
            LET inside == InputsInside(merged[j])
            IN  /\ \E k \in inside : context_ranges[k][1] = merged[j][1]
                /\ \E k \in inside : context_ranges[k][2] = merged[j][2]
                /\ \A k \in inside :
                    context_ranges[k][1] > merged[j][1] =>
                        \E q \in inside :
                            /\ context_ranges[q][1] < context_ranges[k][1]
                            /\ context_ranges[k][1] <= context_ranges[q][2] + 2
        /\ \A p \in Permutations(1..Len(context_ranges)) :
            merge_ranges(Permuted(p)) = merged
        /\ merge_ranges(merged) = merged

\* Given in descending order: (1,1) follows (0,0) and collapses with it,
\* (4,4) starts 3 lines after the end reached and stays separate.
C21_Witness ==
    /\ pc = "merged"
    /\ context_ranges = <<<<4, 4>>, <<1, 1>>, <<0, 0>>>>
    /\ merged = <<<<0, 1>>, <<4, 4>>>>

----------------------------------------------------------------------------
(* Claims about Config.from_env (SpecConfig) *)

\* An optional numeric input that is given and is not a number.
NonNumeric(value, parsed) == value # "" /\ parsed = <<>>

\* The environment holds a configuration error: a missing credential, a
\* provider shortcut that does not resolve, an invalid mode or language, a
\* numeric tunable that is not a number.
ConfigurationError ==
    \/ env.github_token = ""
    \/ env.api_key = "" /\ env.openai_api_key = ""
    \/ /\ env.base_url = ""
       /\ env.provider # ""
       /\ lower(env.provider) \notin DOMAIN PROVIDERS
    \/ env.mode # "" /\ upper(env.mode) \notin Modes
    \/ env.language # "" /\ lower(env.language) \notin Languages
    \/ NonNumeric(env.temperature, float(env.temperature))
    \/ NonNumeric(env.max_tokens, int(env.max_tokens))
    \/ NonNumeric(env.max_diff_chars, int(env.max_diff_chars))

\* C22: every configuration error (missing credential, unresolvable provider
\* shortcut, invalid mode or language, non-numeric temperature, max tokens or
\* max diff characters) ends the run at startup with a failure status, no
\* Config assembled and no call made to the host or the LLM.
C22_ConfigErrorsAreFatal ==
    (pc # "from_env" /\ ConfigurationError) =>
        /\ pc = "done"
        /\ outcome # "running"
        /\ ExitStatus(outcome) = 1
        /\ cfg = NoConfig
        /\ llmCalls = <<>>
        /\ hostCalls = NoHostCalls
        /\ pr_diff = <<>>

\* The value the three layers give: the explicit one, else the file's, else
\* the default.
Layered(explicit, file, default) ==
    IF explicit # <<>> THEN explicit[1]
    ELSE IF file # <<>> THEN file[1]
    ELSE default

\* The number the settings file gives under a key or its hyphenated form.
FileNumber(key, hyphenated) ==
    LET v == IF repo_data[key] # <<>> THEN repo_data[key]
             ELSE repo_data[hyphenated]
    IN  IF v = <<>> THEN <<>> ELSE <<v[1].n>>

\* The list the settings file gives under a key.
FileList(key) ==
    IF repo_data[key] = <<>> \/ repo_data[key][1] = <<>> THEN <<>>
    ELSE <<repo_data[key][1]>>

\* The list an input gives.
InputList(raw) == IF parse_list(raw) = <<>> THEN <<>> ELSE <<parse_list(raw)>>

\* C23: for mode, language, temperature, max tokens, max diff characters,
\* exclude patterns and custom rules the assembled Config holds the explicit
\* value when one is given, the settings-file value only when none is, and
\* the default only when both are absent.
C23_ConfigLayering ==
    pc = "configured" =>
        /\ cfg.mode =
            Layered(IF env.mode = "" THEN <<>> ELSE <<upper(env.mode)>>,
                    IF repo_data["mode"] = <<>> THEN <<>>
                    ELSE <<upper(repo_data["mode"][1].s)>>,
                    "ROAST")
        /\ cfg.language =
            Layered(IF env.language = "" THEN <<>> ELSE <<lower(env.language)>>,
                    IF repo_data["language"] = <<>> THEN <<>>
                    ELSE <<lower(repo_data["language"][1].s)>>,
                    "en")
        /\ cfg.temperature =
            Layered(float(env.temperature),
                    IF repo_data["temperature"] = <<>> THEN <<>>
                    ELSE <<repo_data["temperature"][1].n>>,
                    DefaultTemperature)
        /\ cfg.max_tokens =
            Layered(int(env.max_tokens),
                    FileNumber("max_tokens", "max-tokens"),
                    DefaultMaxTokens)
        /\ ~NonNumeric(env.max_diff_chars, int(env.max_diff_chars)) =>
            cfg.max_diff_chars =
                Layered(int(env.max_diff_chars),
                        FileNumber("max_diff_chars", "max-diff-chars"),
                        DefaultMaxDiffChars)
        /\ Range(cfg.exclude_patterns) =
            Range(Layered(InputList(env.exclude_patterns),
                          FileList("exclude"), <<>>))
        /\ cfg.custom_rules =
            Layered(InputList(env.custom_rules), FileList("rules"), <<>>)

----------------------------------------------------------------------------
(* Claims about resolve_provider (SpecProvider) *)

\* C24: "claude" is not in the provider registry and resolving it with no
\* base URL fails with "Unknown provider", as any name outside the registry
\* does; a name of the registry resolves, in any letter case, to its preset
\* base URL and, unless a model is given, to its default model.
C24_ClaudeNotBuiltIn ==
    (pc = "resolved" /\ env.base_url = "" /\ env.provider # "") =>
        LET key == lower(env.provider)
            r == resolved[1]
        IN  IF key = "claude" \/ key \notin DOMAIN PROVIDERS
            THEN /\ key \notin DOMAIN PROVIDERS
                 /\ r.error = "Unknown provider"
            ELSE /\ r.error = ""
                 /\ r.base_url = PROVIDERS[key].base_url
                 /\ r.model = IF env.model # "" THEN env.model
                               ELSE PROVIDERS[key].default_model

----------------------------------------------------------------------------
(* Claims about main() and the user interrupt (SpecInterrupt) *)

\* The writes the host has accepted.
PostedOnHost == <<prComments, prReviews>>

\* C25: an interrupt can arrive at every point of a run in progress; it ends
\* the run at once (nothing runs after it) with exit status 130, which is
\* not the status 1 of the fatal errors, and nothing is undone: the comments
\* and reviews posted before it stay as they are.
C25_InterruptExits130 ==
    /\ [](outcome = "running" => ENABLED KeyboardInterrupt)
    /\ [](outcome \in {"SystemExit1", "Error1"} => ExitStatus(outcome) = 1)
    /\ [][/\ outcome = "Interrupted" => UNCHANGED vars
          /\ (outcome # "Interrupted" /\ outcome' = "Interrupted") =>
                /\ ExitStatus(outcome') = 130
                /\ ExitStatus(outcome') # 1
                /\ PostedOnHost' = PostedOnHost
                /\ UNCHANGED <<hostCalls, retry, llmCalls>>]_vars

\* Interrupted in the backoff of the summary post, after an earlier summary
\* comment of the pull request was found: it is still there.
C25_Witness ==
    /\ outcome = "Interrupted"
    /\ ExitStatus(outcome) = 130
    /\ retry.caller = "summary"
    /\ retry.attempt > 0
    /\ prComments # <<>>

----------------------------------------------------------------------------
(* Claims about _find_enclosing_block (SpecBlock) *)

\* The 0-based index of the changed line, and the block found for it.
TargetIdx == (CHOOSE line_no \in context_changed_lines : TRUE) - 1
BlockStart == context_ranges[1][1]
BlockEnd == context_ranges[1][2]

\* The lines before the changed line that are not blank and match a block
\* pattern, or are indented less than the changed line.
PatternLinesAbove ==
    {k \in 0..(TargetIdx - 1) :
        ~full_source[k + 1].blank /\ full_source[k + 1].block}

ShallowerLinesAbove ==
    {k \in 0..(TargetIdx - 1) :
        /\ ~full_source[k + 1].blank
        /\ full_source[k + 1].indent < full_source[TargetIdx + 1].indent}

SetMax(S) == CHOOSE x \in S : \A y \in S : y <= x
SetMin(S) == CHOOSE x \in S : \A y \in S : x <= y

\* Where the forward scan ends for a block starting at line start: the line
\* before the next pattern line indented no deeper than the start, else the
\* last line.
NaturalEnd(start) ==
    LET stops == {k \in (TargetIdx + 1)..(Len(full_source) - 1) :
                    /\ ~full_source[k + 1].blank
                    /\ full_source[k + 1].block
                    /\ full_source[k + 1].indent
                        <= full_source[start + 1].indent}
    IN  IF stops = {} THEN Len(full_source) - 1 ELSE SetMin(stops) - 1

\* The start returned for a scan result: moved down to 25 lines above the
\* changed line when the block is clamped.
AfterClamp(start) ==
    IF NaturalEnd(start) - start > MaxBlockLines
    THEN Max(start, TargetIdx - (MaxBlockLines \div 2))
    ELSE start

C27_BlockAtMost50Lines ==
    pc = "block_found" =>
        /\ BlockEnd - BlockStart + 1 <= MaxBlockLines
        /\ BlockStart <= TargetIdx
        /\ TargetIdx <= BlockEnd

----------------------------------------------------------------------------
(* Claims about _strip_code_fences (SpecFence) *)

\* The text handed to _strip_code_fences and the text it returned.
RawText == llmResp[1].content[1]
CleanedText == stripped[1]

\* The text is a fenced document whose tag has n tokens (0 or 1): the
\* opening marker, the tag, a newline, a body, a newline, the closing marker.
IsFencedDocument(n) ==
    /\ Len(RawText) >= 4 + n
    /\ RawText[1] = Tok("fence")
    /\ n = 1 => RawText[2] = Tok("tag")
    /\ RawText[2 + n] = Tok("nl")
    /\ RawText[Len(RawText) - 1] = Tok("nl")
    /\ RawText[Len(RawText)] = Tok("fence")

\* The bodies the text is a fenced document of.
FencedBodies ==
    {SubSeq(RawText, 3 + n, Len(RawText) - 2) :
        n \in {k \in {0, 1} : IsFencedDocument(k)}}

NoFenceIn(text) == \A k \in 1..Len(text) : text[k].t # "fence"

\* C28 as stated: a fenced document gives exactly its body, a text with no
\* fence comes back unchanged.
C28_Original ==
    pc = "stripped" =>
        /\ \A body \in FencedBodies : CleanedText = body
        /\ NoFenceIn(RawText) => CleanedText = RawText

\* C28 (amended): _strip_code_fences removes surrounding whitespace as well.
\* A fenced document, with or without a language tag, gives its body without
\* the body's leading and trailing whitespace; a text with no fence comes
\* back without its leading and trailing whitespace (unchanged when it has
\* none).
C28_FencesAndWhitespaceStripped ==
    pc = "stripped" =>
        /\ \A body \in FencedBodies : CleanedText = Strip(body)
        /\ NoFenceIn(RawText) => CleanedText = Strip(RawText)

\* An unlabelled fence around an indented text: the text alone comes back.
C28_Witness ==
    /\ pc = "stripped"
    /\ RawText = <<Tok("fence"), Tok("nl"), Tok("ws"), Tok("text"), Tok("nl"),
                   Tok("fence")>>
    /\ FencedBodies # {}
    /\ CleanedText = <<Tok("text")>>

----------------------------------------------------------------------------
(* Claims about the termination of _retry_github_call (SpecRetry) *)

\* The wrapper is running: func() is about to be invoked.
InWrapper == pc = "retry_github_call" /\ retry.caller # "none"

\* C29: an invocation of _retry_github_call terminates.  func() is invoked
\* at most max_retries + 1 = 4 times, with sleeps of 1, 2 and 4 seconds
\* between the attempts; after an invocation that succeeded the wrapper
\* returns and func() is not invoked again, so one wrapper invocation creates
\* at most one comment; when the last attempt fails the error leaves the
\* wrapper and reaches the caller.
C29_RetryTerminates ==
    /\ [](/\ retry.attempt + 1 <= MaxRetries + 1
          /\ Len(retry.sleeps) = retry.attempt
          /\ \A k \in 1..Len(retry.sleeps) : retry.sleeps[k] = Pow2(k - 1))
    /\ [][InWrapper =>
            /\ retry'.last = OK =>
                /\ ~InWrapper'
                /\ prComments' = Append(prComments, retry.body[1])
            /\ retry'.last # OK => prComments' = prComments
            /\ InWrapper' =>
                /\ retry'.attempt = retry.attempt + 1
                /\ retry'.last # OK
            /\ (retry.attempt = MaxRetries /\ retry'.last # OK) =>
                /\ ~InWrapper'
                /\ outcome' = "Error1"
                /\ ExitStatus(outcome') = 1]_vars
    /\ InWrapper ~> ~InWrapper

\* Three retried failures with sleeps of 1, 2 and 4 seconds, then the
\* fourth invocation fails too and the error ends the run.
C29_Witness ==
    /\ pc = "done"
    /\ outcome = "Error1"
    /\ retry.attempt = MaxRetries
    /\ retry.sleeps = <<1, 2, 4>>
    /\ retry.last = 500

----------------------------------------------------------------------------
(* Claims about the targets of inline comments (SpecInline) *)

\* The pair is an added line of a file of the diff.
TargetsAddedLine(path, line) ==
    /\ path \in DOMAIN changed_lines
    /\ line \in Range(changed_lines[path])

\* The (path, line) pairs handed to the host so far: the entries of the
\* batched review, accepted or not, the individual comments created and the
\* one the wrapper is sending.
InlineTargets ==
    {<<c.path, c.line>> : c \in Range(comments_payload)}
        \cup UNION {{<<c.path, c.line>> : c \in Range(prReviews[b])} :
                        b \in 1..Len(prReviews)}
        \cup {<<c.path, c.line>> : c \in Range(prComments)}
        \cup {<<c.path, c.line>> : c \in Range(retry.body)}

\* C30: every comment post_inline_comments sends, in the batched review or
\* as an individual comment, targets an added line of its file in
\* changed_lines; a file with no added line and a path that is not in the
\* diff never get one.
C30_TargetsAreAddedLines ==
    /\ \A t \in InlineTargets : TargetsAddedLine(t[1], t[2])
    /\ \A t \in InlineTargets :
        /\ t[1] \in DOMAIN changed_lines
        /\ changed_lines[t[1]] # <<>>

\* The review API refused the batch and two individual comments were
\* created: one on the added line 2, one retargeted from line 11 to line 6.
C30_Witness ==
    /\ reviewStatus = 403
    /\ changed_lines["a.py"] \in {<<2, 6>>, <<6, 2>>}
    /\ Len(result[1].reviews) = 2
    /\ result[1].reviews[1].line_number = 2
    /\ result[1].reviews[2].line_number = 11
    /\ Len(prComments) = 2
    /\ prComments[1].line = 2
    /\ prComments[2].line = 6

====
